---- MODULE Spec2Model ----
(***************************************************************************)
(* Verification model of the daily-puzzle game: the matrix redaction walk  *)
(* (blankCells), the Dexie activity store, the DailyPuzzle component with  *)
(* its hint and analytics-cache collaborators, and the difficulty engine.  *)
(*                                                                         *)
(* Conventions                                                             *)
(*  - a calendar date "YYYY-MM-DD" is a day number (string order on the    *)
(*    ISO form is the numeric order of the day numbers);                   *)
(*  - an object is a TLA+ record; a field that is undefined is a field     *)
(*    that is not in the record's DOMAIN, so that `a.f ?? d` is Field;     *)
(*  - "a value or undefined/null" is a set holding at most one element;    *)
(*  - sr(), the SHA-256 derived integer, is not computed: what it decides  *)
(*    (the candidate order of blankCells) is a nondeterministic choice.    *)
(***************************************************************************)
EXTENDS Integers, FiniteSets, Sequences, TLC

VARIABLES
    \* ---- blankCells (puzzleGenerator.js) ----
    blankCount,     \* the `count` argument
    visited,        \* prefix of `shuffled` the for-loop has walked
    blanked,        \* the `blanked` Set
    blankPc,        \* "loop" | "returned"
    puzzleGrid,     \* the grid blankCells returned (<<>> before it returns)
    \* ---- Dexie activity store (db.js) ----
    activities,     \* table localDB.activities: a set of records
    calls,          \* store calls in flight, between their read and their write
    started,        \* store calls started so far
    now,            \* Date.now()
    \* ---- difficulty engine (Difficultyengine.js) ----
    adaptive,       \* last result of getAdaptiveDifficulty: {} or {result}
    \* ---- DailyPuzzle component (DailyPuzzle.jsx) ----
    today,          \* dayjs().format("YYYY-MM-DD") as a day number
    puzzle,         \* useState puzzle: {} (null) or {[date, difficulty, type]}
    status,         \* useState status, a STATUS value
    attempts,       \* useState attempts
    hintBudget,     \* useState hintBudget
    hintsUsed,      \* useState hintsUsed
    hintText,       \* useState hintText: 0 (null) or the level of the text shown
    startTime,      \* useState startTime: NoTime (null) or a clock value
    events,         \* handler invocations started so far
    \* ---- hint engine and analytics cache ----
    hintUsage,      \* table localDB.hintUsage, were it declared
    _cache,         \* Advancedanalytics.js _cache: {} (null) or {snapshot}
    \* ---- bookkeeping of what the player was shown ----
    served,         \* per date: hint texts displayed by handleUseHint
    dayBudget,      \* per date: the budget loadPuzzle last computed
    failed,         \* per date: the wrong answers submitted so far
    \* ---- Firestore (firestoreSync.js) ----
    leaderboard     \* document leaderboard/<uid>: {} (no document) or {data}

blankVars  == <<blankCount, visited, blanked, blankPc, puzzleGrid>>
storeVars  == <<calls, started, now>>
engineVars == <<adaptive>>
remoteVars == <<leaderboard>>
puzzleVars == <<today, puzzle, status, attempts, hintBudget, hintsUsed, hintText,
                startTime, events, hintUsage, _cache, served, dayBudget, failed>>
vars == <<blankCount, visited, blanked, blankPc, puzzleGrid, activities, calls,
          started, now, adaptive, today, puzzle, status, attempts, hintBudget,
          hintsUsed, hintText, startTime, events, hintUsage, _cache, served,
          dayBudget, failed, leaderboard>>

(***************************************************************************)
(* Bounds of the model                                                     *)
(***************************************************************************)
MaxHistory == 7      \* records the engine specification puts in the store

(***************************************************************************)
(* JavaScript helpers                                                      *)
(***************************************************************************)
\* a.f ?? d
Field(a, f, d) == IF f \in DOMAIN a THEN a[f] ELSE d

\* Math.round(p / q) for p >= 0, q > 0: round half up.
Round(p, q) == (2 * p + q) \div (2 * q)

Max2(a, b) == IF a >= b THEN a ELSE b
Min2(a, b) == IF a <= b THEN a ELSE b

RECURSIVE SumSeq(_)
SumSeq(s) == IF s = <<>> THEN 0 ELSE Head(s) + SumSeq(Tail(s))

\* Array.prototype.slice(from, to), 0-based, to exclusive
Slice(s, from, to) ==
    IF from >= Min2(to, Len(s)) THEN <<>> ELSE SubSeq(s, from + 1, Min2(to, Len(s)))

\* floor(sqrt(n)) by bisection on [lo, hi]
RECURSIVE SqrtSearch(_, _, _)
SqrtSearch(n, lo, hi) ==
    IF lo >= hi THEN lo
    ELSE LET mid == (lo + hi + 1) \div 2
         IN  IF mid * mid <= n THEN SqrtSearch(n, mid, hi)
             ELSE SqrtSearch(n, lo, mid - 1)

\* floor(100 * Math.sqrt(t)) for 1 <= t <= 20000
SqrtCenti(t) == SqrtSearch(10000 * t, 0, 15000)

(***************************************************************************)
(* Difficulty engine: src/src/utils/Difficultyengine.js                    *)
(***************************************************************************)
EASY   == "easy"
MEDIUM == "medium"
HARD   == "hard"
Difficulties == {EASY, MEDIUM, HARD}

SEQUENCE == "sequence"
MATRIX   == "matrix"

\* EXPECTED_SOLVE_TIME[difficulty] ?? 60
ExpectedSolveTime(d) ==
    CASE d = EASY   -> 60
      [] d = MEDIUM -> 45
      [] d = HARD   -> 30
      [] OTHER      -> 60

LOOKBACK_DAYS      == 7
THRESHOLD_INCREASE == 75
THRESHOLD_DECREASE == 35

DIFFICULTY_UP(d) ==
    CASE d = EASY   -> MEDIUM
      [] d = MEDIUM -> HARD
      [] d = HARD   -> HARD

DIFFICULTY_DOWN(d) ==
    CASE d = EASY   -> EASY
      [] d = MEDIUM -> EASY
      [] d = HARD   -> MEDIUM

\* getAllActivities: the table's records sorted newest-first.
RECURSIVE SortNewestFirst(_)
SortNewestFirst(recs) ==
    IF recs = {} THEN <<>>
    ELSE LET newest == CHOOSE r \in recs : \A q \in recs : q.date <= r.date
         IN  <<newest>> \o SortNewestFirst(recs \ {newest})

getAllActivities(table) == SortNewestFirst(table)

IsSolved(a) == Field(a, "solved", FALSE) = TRUE

\* counts[d] after the forEach of getDominantDifficulty
DifficultyCount(solved, d) ==
    Cardinality({i \in 1..Len(solved) : Field(solved[i], "difficulty", EASY) = d})

\* Object.entries(counts).sort((a, b) => b[1] - a[1])[0][0]: the sort is stable,
\* so among equal counts the first key of the literal (easy, medium, hard) wins.
getDominantDifficulty(solved) ==
    IF Len(solved) = 0 THEN EASY
    ELSE LET e == DifficultyCount(solved, EASY)
             m == DifficultyCount(solved, MEDIUM)
             h == DifficultyCount(solved, HARD)
         IN  IF e >= m /\ e >= h THEN EASY
             ELSE IF m >= h THEN MEDIUM
             ELSE HARD

\* Math.round((solved.length / recentWindow.length) * 40)
SolveRateScore(window, solved) == Round(Len(solved) * 40, Len(window))

TimeSum(solved) == SumSeq([i \in 1..Len(solved) |-> Field(solved[i], "timeTaken", 60)])

\* computeSpeedScore without its `avgTime <= expected` ceiling.
computeSpeedScoreNoCeiling(solved, difficulty) ==
    IF Len(solved) = 0 THEN 20
    ELSE LET n        == Len(solved)
             total    == TimeSum(solved)
             expected == ExpectedSolveTime(difficulty)
             maxTime  == expected * 2
         IN  IF total >= maxTime * n THEN 0
             ELSE Round((maxTime * n - total) * 40, expected * n)

\* computeSpeedScore: avgTime = TimeSum / length is compared and interpolated
\* as an exact fraction.
computeSpeedScore(solved, difficulty) ==
    IF Len(solved) = 0 THEN 20
    ELSE LET n        == Len(solved)
             total    == TimeSum(solved)
             expected == ExpectedSolveTime(difficulty)
             maxTime  == expected * 2
         IN  IF total <= expected * n THEN 40
             ELSE IF total >= maxTime * n THEN 0
             ELSE Round((maxTime * n - total) * 40, expected * n)

\* CleanSolves counting `attempts < 1` instead of `attempts <= 1`.
CleanSolvesStrict(solved) ==
    Cardinality({i \in 1..Len(solved) : Field(solved[i], "attempts", 1) < 1})

CleanSolves(solved) ==
    Cardinality({i \in 1..Len(solved) : Field(solved[i], "attempts", 1) <= 1})

CleanSolveScore(solved) ==
    IF Len(solved) > 0 THEN Round(CleanSolves(solved) * 20, Len(solved)) ELSE 0

\* score / (attempts * Math.sqrt(time)) in units of 1/10000, with the square
\* root taken to two decimals.
Quality(a) ==
    LET tries == Max2(Field(a, "attempts", 1), 1)
        time  == Max2(Field(a, "timeTaken", 60), 1)
    IN  (Field(a, "score", 50) * 1000000) \div (tries * SqrtCenti(time))

QualitySum(group) == SumSeq([i \in 1..Len(group) |-> Quality(group[i])])

\* computeTrend: delta = newerQ - olderQ against +-0.1, cross-multiplied.
computeTrend(solved) ==
    IF Len(solved) < 4 THEN "stable"
    ELSE LET mid   == Len(solved) \div 2
             newer == Slice(solved, 0, mid)
             older == Slice(solved, mid, Len(solved))
             delta == QualitySum(newer) * Len(older) - QualitySum(older) * Len(newer)
             tenth == 1000 * Len(newer) * Len(older)
         IN  IF delta > tenth THEN "improving"
             ELSE IF delta < -tenth THEN "declining"
             ELSE "stable"

\* decidePuzzleType without the test that the difficulty is not easy.
decidePuzzleTypeAnyTier(totalDays, solved, performanceScore, currentDifficulty) ==
    IF totalDays < 3 THEN SEQUENCE
    ELSE IF Len(solved) < 2 THEN SEQUENCE
    ELSE IF performanceScore >= 50 THEN MATRIX
    ELSE SEQUENCE

decidePuzzleType(totalDays, solved, performanceScore, currentDifficulty) ==
    IF totalDays < 3 THEN SEQUENCE
    ELSE IF Len(solved) < 2 THEN SEQUENCE
    ELSE IF performanceScore >= 50 /\ currentDifficulty # EASY THEN MATRIX
    ELSE SEQUENCE

RecentWindow(table) == Slice(getAllActivities(table), 0, LOOKBACK_DAYS)

SolvedOf(window) == SelectSeq(window, IsSolved)

PerformanceScore(window) ==
    LET solved == SolvedOf(window)
    IN  SolveRateScore(window, solved)
        + computeSpeedScore(solved, getDominantDifficulty(solved))
        + CleanSolveScore(solved)

\* The threshold step of getAdaptiveDifficulty (lines 146-158).
ThresholdDecision(performanceScore, currentDifficulty) ==
    IF performanceScore >= THRESHOLD_INCREASE
    THEN [difficulty |-> DIFFICULTY_UP(currentDifficulty),
          reason |-> <<"strong performance", "Increasing difficulty">>]
    ELSE IF performanceScore < THRESHOLD_DECREASE
    THEN [difficulty |-> DIFFICULTY_DOWN(currentDifficulty),
          reason |-> <<"struggling", "Decreasing difficulty">>]
    ELSE [difficulty |-> currentDifficulty,
          reason |-> <<"steady performance", "Maintaining difficulty">>]

\* TrendModifier stepping from the difficulty the threshold step chose, without
\* the test that the step kept the tier.
TrendModifierCompounds(step, trend, performanceScore, currentDifficulty) ==
    LET up == IF trend = "improving" /\ performanceScore >= 60
              THEN [difficulty |-> DIFFICULTY_UP(step.difficulty),
                    reason |-> step.reason \o <<"Upward trend detected">>]
              ELSE step
    IN  IF trend = "declining" /\ performanceScore <= 45
        THEN [difficulty |-> DIFFICULTY_DOWN(up.difficulty),
              reason |-> up.reason \o <<"Downward trend detected">>]
        ELSE up

\* TrendModifier without its downward branch.
TrendModifierNoDownward(step, trend, performanceScore, currentDifficulty) ==
    IF trend = "improving" /\ step.difficulty = currentDifficulty
       /\ performanceScore >= 60
    THEN [difficulty |-> DIFFICULTY_UP(currentDifficulty),
          reason |-> step.reason \o <<"Upward trend detected">>]
    ELSE step

\* The two trend modifiers (lines 163-170), applied in order.
TrendModifier(step, trend, performanceScore, currentDifficulty) ==
    LET up == IF trend = "improving" /\ step.difficulty = currentDifficulty
                 /\ performanceScore >= 60
              THEN [difficulty |-> DIFFICULTY_UP(currentDifficulty),
                    reason |-> step.reason \o <<"Upward trend detected">>]
              ELSE step
    IN  IF trend = "declining" /\ up.difficulty = currentDifficulty
           /\ performanceScore <= 45
        THEN [difficulty |-> DIFFICULTY_DOWN(currentDifficulty),
              reason |-> up.reason \o <<"Downward trend detected">>]
        ELSE up

\* ColdStart reporting the neutral speed score as the performance score.
ColdStartNeutral ==
    [puzzleType |-> SEQUENCE, difficulty |-> EASY, performanceScore |-> 20,
     trend |-> "stable", reason |-> <<"No history found">>]

\* The cold-start return of getAdaptiveDifficulty (no history at all).
ColdStart ==
    [puzzleType |-> SEQUENCE, difficulty |-> EASY, performanceScore |-> 0,
     trend |-> "stable", reason |-> <<"No history found">>]

getAdaptiveDifficulty(table) ==
    LET recentWindow == RecentWindow(table)
    IN  IF Len(recentWindow) = 0
        THEN ColdStart
        ELSE LET solved            == SolvedOf(recentWindow)
                 currentDifficulty == getDominantDifficulty(solved)
                 performanceScore  == PerformanceScore(recentWindow)
                 trend             == computeTrend(solved)
                 decided == TrendModifier(
                                ThresholdDecision(performanceScore, currentDifficulty),
                                trend, performanceScore, currentDifficulty)
             IN  [puzzleType |-> decidePuzzleType(Len(recentWindow), solved,
                                                  performanceScore, decided.difficulty),
                  difficulty |-> decided.difficulty,
                  performanceScore |-> performanceScore,
                  trend |-> trend,
                  reason |-> decided.reason]


(***************************************************************************)
(* Matrix generator: src/unnamed/part_011 (puzzleGenerator.js)             *)
(***************************************************************************)
GridSide == 4
Cells    == 0 .. (GridSide * GridSide - 1)
Null     == -1

RowOf(i) == i \div GridSide
ColOf(i) == i % GridSide

\* buildArithmeticGrid: cell(r, c) = base + r*rowStep + c*colStep, row-major
buildArithmeticGrid(base, rowStep, colStep) ==
    [i \in Cells |-> base + RowOf(i) * rowStep + ColOf(i) * colStep]

\* { easy: 3, medium: 5, hard: 7 }[difficulty] ?? 3
BlankCountFor(difficulty) ==
    CASE difficulty = EASY   -> 3
      [] difficulty = MEDIUM -> 5
      [] difficulty = HARD   -> 7
      [] OTHER               -> 3

\* The cells the two filters of the loop body range over once `i !== idx` and
\* the row (column) test are applied.
RowMates == [idx \in Cells |-> {i \in Cells : RowOf(i) = RowOf(idx) /\ i # idx}]
ColMates == [idx \in Cells |-> {i \in Cells : ColOf(i) = ColOf(idx) /\ i # idx}]

\* visibleInRow / visibleInCol of the loop body
VisibleInRow(idx, b) == Cardinality({i \in RowMates[idx] : i \notin b})

VisibleInCol(idx, b) == Cardinality({i \in ColMates[idx] : i \notin b})

\* CanBlank asking for one other visible cell instead of two.
CanBlankOneOther(idx, b) == VisibleInRow(idx, b) >= 1 /\ VisibleInCol(idx, b) >= 1

\* if (visibleInRow >= 2 && visibleInCol >= 2)
CanBlank(idx, b) == VisibleInRow(idx, b) >= 2 /\ VisibleInCol(idx, b) >= 2

\* LoopBreaks testing `>` instead of `>=`.
LoopBreaksLate(b, count) == Cardinality(b) > count

\* if (blanked.size >= count) break;
LoopBreaks(b, count) == Cardinality(b) >= count

\* The solution grid handed to blankCells: the cell values play no part in the
\* walk, so one arithmetic grid stands for all of them.
FlatGrid == buildArithmeticGrid(2, 2, 1)

\* blanked.forEach((idx) => { puzzle[idx] = null; }); return puzzle;
ApplyBlanks(flatGrid, b) == [i \in Cells |-> IF i \in b THEN Null ELSE flatGrid[i]]

BlankInit ==
    /\ blankCount \in {BlankCountFor(d) : d \in Difficulties}
    /\ visited = {}
    /\ blanked = {}
    /\ blankPc = "loop"
    /\ puzzleGrid = <<>>

RemoteIdle == leaderboard = {}

BlankIdle ==
    /\ blankCount = 0
    /\ visited = {}
    /\ blanked = {}
    /\ blankPc = "idle"
    /\ puzzleGrid = <<>>

\* The for-loop has ended: by `break`, or by running out of candidates.
LoopEnded(v, b, count) == LoopBreaks(b, count) \/ v = Cells

\* One iteration of `for (const idx of shuffled)`: idx is the next index of the
\* seeded order, which may be any index not walked yet. When the loop ends
\* after this iteration, the blanks are applied and the grid is returned.
BlankVisit ==
    /\ blankPc = "loop"
    /\ \E idx \in Cells \ visited :
          /\ visited' = visited \cup {idx}
          /\ blanked' = IF CanBlank(idx, blanked) THEN blanked \cup {idx} ELSE blanked
    /\ IF LoopEnded(visited', blanked', blankCount)
       THEN blankPc' = "returned" /\ puzzleGrid' = ApplyBlanks(FlatGrid, blanked')
       ELSE blankPc' = "loop" /\ puzzleGrid' = puzzleGrid
    /\ UNCHANGED blankCount
    /\ UNCHANGED <<activities, calls, started, now, adaptive>>
    /\ UNCHANGED puzzleVars
    /\ UNCHANGED remoteVars

(***************************************************************************)
(* Activity store: src/unnamed/part_004 (db.js, Dexie)                     *)
(*                                                                         *)
(* The table is a set of records. `synced` is the one field whose          *)
(* JavaScript type matters to the code (the index matches the number 0,    *)
(* not the boolean false), so its values carry their type: Num(n) is a     *)
(* number, Bool(b) a boolean. puzzleSeed "" is day 0.                      *)
(***************************************************************************)
Num(n)  == [num |-> n]
Bool(b) == [bool |-> b]

\* JavaScript truthiness of a number or boolean
Truthy(v) == IF "bool" \in DOMAIN v THEN v.bool ELSE v.num # 0

\* table.get(key): undefined or the record
DexieGet(table, key) == {r \in table : r.date = key}

\* table.put(record): insert, or replace the record with the same primary key
\* (`date` is the primary key of every schema version)
DexiePut(table, record) == {r \in table : r.date # record.date} \cup {record}

\* { ...r, ...changes }
Merge(r, changes) ==
    [f \in DOMAIN r \cup DOMAIN changes |->
        IF f \in DOMAIN changes THEN changes[f] ELSE r[f]]

\* table.update(key, changes): modifies the record if there is one
DexieUpdate(table, key, changes) ==
    {IF r.date = key THEN Merge(r, changes) ELSE r : r \in table}

\* activity.f ?? existing?.f ?? d
Coalesce(activity, existing, f, d) ==
    IF f \in DOMAIN activity THEN activity[f]
    ELSE IF \E e \in existing : f \in DOMAIN e
         THEN (CHOOSE e \in existing : TRUE)[f]
         ELSE d

\* The coercion without `? 1 : 0`.
SyncedFlagRaw(v) == v

\* (v ? 1 : 0)
SyncedFlag(v) == IF Truthy(v) THEN Num(1) ELSE Num(0)

\* existing?.createdAt ?? activity.createdAt ?? Date.now()
CreatedAt(activity, existing, clock) ==
    IF \E e \in existing : "createdAt" \in DOMAIN e
    THEN (CHOOSE e \in existing : TRUE).createdAt
    ELSE Field(activity, "createdAt", clock)

\* The `record` object saveDailyActivity builds and puts (lines 83-94).
SaveRecord(activity, existing, clock) ==
    [date       |-> activity.date,
     uid        |-> Coalesce(activity, existing, "uid", ""),
     score      |-> Coalesce(activity, existing, "score", 0),
     timeTaken  |-> Coalesce(activity, existing, "timeTaken", 0),
     difficulty |-> Coalesce(activity, existing, "difficulty", EASY),
     solved     |-> Coalesce(activity, existing, "solved", FALSE),
     attempts   |-> Coalesce(activity, existing, "attempts", 1),
     puzzleSeed |-> Coalesce(activity, existing, "puzzleSeed", 0),
     synced     |-> SyncedFlag(Coalesce(activity, existing, "synced", Num(0))),
     createdAt  |-> CreatedAt(activity, existing, clock)]

\* getUnsyncedActivities: where("synced").equals(0)
getUnsyncedActivities(table) == {r \in table : r.synced = Num(0)}

\* markActivitiesSynced: one update per date; updates of different keys commute
markActivitiesSynced(table, dates) ==
    {IF r.date \in dates THEN Merge(r, [synced |-> Num(1)]) ELSE r : r \in table}

\* The patch incrementAttempts applies when the record exists (line 171).
AttemptsPatch(existingRecord) == [attempts |-> Field(existingRecord, "attempts", 0) + 1]


(***************************************************************************)
(* Difficulty engine over stores of up to MaxHistory records               *)
(***************************************************************************)
\* score = Math.max(100 - timeTaken, 10) (DailyPuzzle.jsx handleSubmit)
ScoreFor(timeTaken) == Max2(100 - timeTaken, 10)

SolvedProfile(difficulty, timeTaken, tries) ==
    [solved |-> TRUE, difficulty |-> difficulty, timeTaken |-> timeTaken,
     attempts |-> tries, score |-> ScoreFor(timeTaken)]

EngineProfiles ==
    { SolvedProfile(HARD, 10, 1),
      SolvedProfile(MEDIUM, 64, 2),
      SolvedProfile(EASY, 100, 1),
      [solved |-> FALSE, difficulty |-> EASY, timeTaken |-> 0, attempts |-> 2,
       score |-> 0] }

\* A player who is slow and needs several tries on hard puzzles.
SlowProfiles ==
    { SolvedProfile(HARD, 90, 3),
      SolvedProfile(MEDIUM, 64, 2),
      [solved |-> FALSE, difficulty |-> EASY, timeTaken |-> 0, attempts |-> 2,
       score |-> 0] }

\* A history is drawn from one family of profiles.
EngineFamilies == {EngineProfiles, SlowProfiles}

\* The record a profile leaves in the table for a date.
ProfileRecord(date, p) ==
    [date |-> date, uid |-> "", score |-> p.score, timeTaken |-> p.timeTaken,
     difficulty |-> p.difficulty, solved |-> p.solved, attempts |-> p.attempts,
     puzzleSeed |-> date, synced |-> Num(0), createdAt |-> date]

EngineInit ==
    /\ activities = {}
    /\ adaptive = {}

\* One more day of history lands in the table.
EngineRecord ==
    /\ Cardinality(activities) < MaxHistory
    /\ \E family \in EngineFamilies : \E p \in family :
          /\ \A r \in activities : \E q \in family : r = ProfileRecord(r.date, q)
          /\ activities' = activities \cup {ProfileRecord(Cardinality(activities) + 1, p)}
    /\ adaptive' = {}
    /\ UNCHANGED storeVars
    /\ UNCHANGED <<blankVars, remoteVars>>
    /\ UNCHANGED puzzleVars

EngineCall ==
    /\ adaptive = {}
    /\ adaptive' = {getAdaptiveDifficulty(activities)}
    /\ UNCHANGED <<activities, calls, started, now>>
    /\ UNCHANGED <<blankVars, remoteVars>>
    /\ UNCHANGED puzzleVars

StoreIdle ==
    /\ calls = {}
    /\ started = 0
    /\ now = 0

\* The component is not mounted.
PuzzleIdle ==
    /\ today = 1
    /\ puzzle = {}
    /\ status = "unmounted"
    /\ attempts = 0
    /\ hintBudget = 0
    /\ hintsUsed = 0
    /\ hintText = 0
    /\ startTime = -1
    /\ events = 0
    /\ hintUsage = {}
    /\ _cache = {}
    /\ served = <<>>
    /\ dayBudget = <<>>
    /\ failed = <<>>

SpecBlankInit == BlankInit /\ activities = {} /\ StoreIdle /\ adaptive = {} /\ PuzzleIdle /\ RemoteIdle
SpecBlankNext == BlankVisit
SpecBlank     == SpecBlankInit /\ [][SpecBlankNext]_vars

(***************************************************************************)
(* blankCells over every `count` argument, not only the three that         *)
(* generateMatrixPuzzle passes. With count 0 the loop breaks before its    *)
(* first iteration and the grid is returned as it came.                    *)
(***************************************************************************)
MaxBlankCount == 9    \* largest `count` argument
BlankCounts   == 0..MaxBlankCount

BlankCountsInit ==
    /\ blankCount \in BlankCounts
    /\ visited = {}
    /\ blanked = {}
    /\ IF LoopBreaks({}, blankCount)
       THEN blankPc = "returned" /\ puzzleGrid = ApplyBlanks(FlatGrid, {})
       ELSE blankPc = "loop" /\ puzzleGrid = <<>>

SpecBlankCountsInit == BlankCountsInit /\ activities = {} /\ StoreIdle /\ adaptive = {} /\ PuzzleIdle /\ RemoteIdle
SpecBlankCountsNext == BlankVisit
SpecBlankCounts     == SpecBlankCountsInit /\ [][SpecBlankCountsNext]_vars

SpecEngineInit == EngineInit /\ BlankIdle /\ StoreIdle /\ PuzzleIdle /\ RemoteIdle
SpecEngineNext == EngineRecord \/ EngineCall
SpecEngine     == SpecEngineInit /\ [][SpecEngineNext]_vars

(***************************************************************************)
(* The store under concurrent callers                                      *)
(***************************************************************************)
MaxCalls      == 2    \* store calls the callers start in one run
MaxStoreDates == 1    \* dates the callers write
MaxClock      == 1    \* last value Date.now() takes

StoreDates == 1..MaxStoreDates

\* The object handleSubmit of DailyPuzzle.jsx saves on a solve (lines 230-241).
SubmitActivity(date, uid, timeTaken, difficulty, totalAttempts, clock) ==
    [date |-> date, uid |-> uid, score |-> ScoreFor(timeTaken),
     timeTaken |-> timeTaken, difficulty |-> difficulty, solved |-> TRUE,
     attempts |-> totalAttempts, puzzleSeed |-> date, synced |-> Num(0),
     createdAt |-> clock]

\* { ...saved, synced: 1 } (DailyPuzzle.jsx line 249)
ResaveActivity(saved) == Merge(saved, [synced |-> Num(1)])

\* The partial object the first DailyPuzzle component saves
\* (src/src/components/DailyPuzzle.jsx lines 31-38).
LegacyActivity(date, timeTaken) ==
    [date |-> date, score |-> ScoreFor(timeTaken), timeTaken |-> timeTaken,
     difficulty |-> "2", solved |-> TRUE, synced |-> Bool(FALSE)]

\* What callers hand to saveDailyActivity.
SaveInputs ==
    {SubmitActivity(d, "u1", 20, EASY, k, now) : d \in StoreDates, k \in 1..2}
    \cup {LegacyActivity(d, 20) : d \in StoreDates}

\* A call in flight is a record with the number of the call; calls is the set
\* of calls that are between their read and their write.
CallsStarted == started < MaxCalls

StoreInit ==
    /\ activities = {}
    /\ calls = {}
    /\ started = 0
    /\ now = 0

\* saveDailyActivity up to its first await: the read of the existing record.
SaveRead ==
    \E activity \in SaveInputs :
        /\ CallsStarted
        /\ started' = started + 1
        /\ calls' = calls \cup
              {[id |-> started', op |-> "save", activity |-> activity,
                existing |-> DexieGet(activities, activity.date)]}
        /\ UNCHANGED <<activities, now, adaptive>>
        /\ UNCHANGED <<blankVars, remoteVars>>
        /\ UNCHANGED puzzleVars

\* saveDailyActivity from the read on: build the record and put it.
SavePut ==
    \E call \in calls :
        /\ call.op = "save"
        /\ activities' = DexiePut(activities,
                            SaveRecord(call.activity, call.existing, now))
        /\ calls' = calls \ {call}
        /\ UNCHANGED <<started, now, adaptive>>
        /\ UNCHANGED <<blankVars, remoteVars>>
        /\ UNCHANGED puzzleVars

\* incrementAttempts up to the read of getActivityByDate.
IncrementRead ==
    \E date \in StoreDates :
        /\ CallsStarted
        /\ started' = started + 1
        /\ calls' = calls \cup
              {[id |-> started', op |-> "increment", date |-> date,
                existing |-> DexieGet(activities, date)]}
        /\ UNCHANGED <<activities, now, adaptive>>
        /\ UNCHANGED <<blankVars, remoteVars>>
        /\ UNCHANGED puzzleVars

\* incrementAttempts from the read on: patch the record if one was read.
IncrementPatch ==
    \E call \in calls :
        /\ call.op = "increment"
        /\ activities' =
              IF call.existing = {} THEN activities
              ELSE DexieUpdate(activities, call.date,
                       AttemptsPatch(CHOOSE e \in call.existing : TRUE))
        /\ calls' = calls \ {call}
        /\ UNCHANGED <<started, now, adaptive>>
        /\ UNCHANGED <<blankVars, remoteVars>>
        /\ UNCHANGED puzzleVars

\* markActivitiesSynced(dates)
MarkSynced ==
    \E dates \in SUBSET StoreDates :
        /\ dates # {}
        /\ activities' = markActivitiesSynced(activities, dates)
        /\ UNCHANGED <<calls, started, now, adaptive>>
        /\ UNCHANGED <<blankVars, remoteVars>>
        /\ UNCHANGED puzzleVars

\* Time passes.
Tick ==
    /\ now < MaxClock
    /\ now' = now + 1
    /\ UNCHANGED <<activities, calls, started, adaptive>>
    /\ UNCHANGED <<blankVars, remoteVars>>
    /\ UNCHANGED puzzleVars

SpecStoreInit == StoreInit /\ BlankIdle /\ adaptive = {} /\ PuzzleIdle /\ RemoteIdle
SpecStoreNext ==
    SaveRead \/ SavePut \/ IncrementRead \/ IncrementPatch \/ MarkSynced \/ Tick
SpecStore     == SpecStoreInit /\ [][SpecStoreNext]_vars

(***************************************************************************)
(* DailyPuzzle component (src/unnamed/part_001), hint engine               *)
(* (src/unnamed/part_006), analytics cache (Advancedanalytics.js) and      *)
(* background sync (src/unnamed/part_012)                                  *)
(*                                                                         *)
(* Handlers run up to their first await in one step; each store call they  *)
(* await stays in `calls` until its write. hintText is the level of the    *)
(* hint text on display, 0 for null.                                       *)
(***************************************************************************)
MaxEvents == 4    \* handler invocations of one run
MaxDays   == 1    \* days a run may take place on

Days   == 1..MaxDays
NoTime == -1

STATUS ==
    [LOADING |-> "loading", IDLE |-> "idle", IN_PROGRESS |-> "inProgress",
     SOLVED |-> "solved", ERROR |-> "error"]

\* auth.currentUser?.uid ?? "": signed out, or the one signed-in user
Uids == {"", "u1"}

\* The tables the Dexie schema declares (versions 1 to 4).
LocalDBTables == {"activities"}

\* { easy: 3, medium: 2, hard: 1 }[difficulty] ?? 1
HintBase(difficulty) ==
    CASE difficulty = EASY   -> 3
      [] difficulty = MEDIUM -> 2
      [] difficulty = HARD   -> 1
      [] OTHER               -> 1

\* getRecentSolvedActivities(n): all.filter((a) => a.solved).slice(0, n)
getRecentSolvedActivities(table, n) ==
    Slice(SelectSeq(getAllActivities(table), IsSolved), 0, n)

\* The try block of computeHintBudget. `read` is what the awaited
\* getRecentSolvedActivities(7) settles to: {table} when the store answers,
\* {} when the read throws and the catch leaves bonus at 0.
HintBonus(read) ==
    IF read = {} THEN 0
    ELSE LET table    == CHOOSE t \in read : TRUE
             recent   == getRecentSolvedActivities(table, 7)
             nSolved  == Len(SelectSeq(recent, IsSolved))
             \* accuracy = nSolved / recent.length, or 1 for an empty list
             struggle == IF Len(recent) > 0 /\ 2 * nSolved < Len(recent)
                         THEN 1 ELSE 0
             loyalty  == IF Len(recent) >= 7 THEN 1 ELSE 0
         IN  struggle + loyalty

\* computeHintBudget for a difficulty whose base is a number.
computeHintBudget(difficulty, table) ==
    Min2(HintBase(difficulty) + HintBonus({table}), 4)

\* Property names the object literal { easy, medium, hard } does not own but
\* inherits from Object.prototype: the lookup yields a function or an object,
\* which is not nullish, so `?? 1` keeps it.
ObjectPrototypeKeys == {"constructor", "toString", "__proto__"}

\* Math.min of a non-numeric string and 4
NaN == [nan |-> TRUE]

\* The value computeHintBudget(difficulty) resolves to. With an inherited
\* key, base + bonus is a string concatenation and Math.min yields NaN.
HintBudgetValue(difficulty, read) ==
    IF difficulty \in ObjectPrototypeKeys THEN NaN
    ELSE Num(Min2(HintBase(difficulty) + HintBonus(read), 4))

\* useHint: localDB.hintUsage?.get / ?.put do nothing when the table is not
\* declared.
useHint(table, date, difficulty, budget) ==
    IF "hintUsage" \notin LocalDBTables THEN table
    ELSE LET existing == {r \in table : r.date = date}
             current  == IF existing = {} THEN 0
                         ELSE (CHOOSE e \in existing : TRUE).hintsUsed
         IN  {r \in table : r.date # date}
                 \cup {[date |-> date, difficulty |-> difficulty,
                        hintsUsed |-> current + 1, budget |-> budget]}

\* getHintsUsedToday: record?.hintsUsed ?? 0
getHintsUsedToday(table, date) ==
    IF "hintUsage" \notin LocalDBTables THEN 0
    ELSE LET existing == {r \in table : r.date = date}
         IN  IF existing = {} THEN 0 ELSE (CHOOSE e \in existing : TRUE).hintsUsed

\* generateDailyPuzzle: the fields of the puzzle the component reads besides
\* the generated numbers.
generateDailyPuzzle(table, date) ==
    LET a == getAdaptiveDifficulty(table)
    IN  [date |-> date, difficulty |-> a.difficulty, type |-> a.puzzleType]

\* Array.prototype.reverse
Reverse(s) == [i \in 1..Len(s) |-> s[Len(s) + 1 - i]]

\* rollingAverage(values, window): null (the empty set) until the window is
\* full, then Math.round of the window's sum over the window size. Index i
\* here is JavaScript's index i - 1.
rollingAverageFloor(values, window) ==
    [i \in 1..Len(values) |->
        IF i - 1 < window - 1 THEN {}
        ELSE {SumSeq(Slice(values, i - window, i)) \div window}]

rollingAverage(values, window) ==
    [i \in 1..Len(values) |->
        IF i - 1 < window - 1 THEN {}
        ELSE {Round(SumSeq(Slice(values, i - window, i)), window)}]

\* adaptive.difficulty !== "hard" ? Math.max(0, 75 - performanceScore) : null
PtsToAdvance(a) ==
    IF a.difficulty # HARD THEN {Max2(0, 75 - a.performanceScore)} ELSE {}

\* PtsAtRisk without the floor at 0.
PtsAtRiskSigned(a) ==
    IF a.difficulty # EASY THEN {a.performanceScore - 35} ELSE {}

\* adaptive.difficulty !== "easy" ? Math.max(0, performanceScore - 35) : null
PtsAtRisk(a) ==
    IF a.difficulty # EASY THEN {Max2(0, a.performanceScore - 35)} ELSE {}

\* computeInsightsData: performanceTrend and performanceSummary (ptsToAdvance
\* and ptsAtRisk are a number or null, its local thresholds are 75 and 35).
\* Every other field of the snapshot is computed from the same solved sessions.
computeInsightsData(table) ==
    LET solved      == SelectSeq(getAllActivities(table), IsSolved)
        recentChron == Reverse(Slice(solved, 0, 60))
        rawScores   == [i \in 1..Len(recentChron) |-> Field(recentChron[i], "score", 0)]
        rolling     == rollingAverage(rawScores, 7)
    IN  IF Len(solved) = 0 THEN [isEmpty |-> TRUE, performanceTrend |-> <<>>]
        ELSE [isEmpty |-> FALSE,
              performanceTrend |->
                  [i \in 1..Len(recentChron) |->
                      [date |-> recentChron[i].date,
                       score |-> Field(recentChron[i], "score", 0),
                       timeTaken |-> Field(recentChron[i], "timeTaken", 0),
                       difficulty |-> Field(recentChron[i], "difficulty", EASY),
                       attempts |-> Field(recentChron[i], "attempts", 1),
                       rollingAvg |-> rolling[i]]],
              performanceSummary |->
                  LET a == getAdaptiveDifficulty(table)
                  IN  [currentDifficulty |-> a.difficulty, trend |-> a.trend,
                       performanceScore |-> a.performanceScore,
                       ptsToAdvance |-> PtsToAdvance(a),
                       ptsAtRisk |-> PtsAtRisk(a)]]

\* Stores the player may arrive with: none, yesterday's easy solve not yet
\* synced, or a week of fast clean hard solves that were synced already.
PuzzleHistories ==
    { {},
      {Merge(ProfileRecord(0, SolvedProfile(EASY, 10, 1)), [synced |-> Num(0)])},
      {Merge(ProfileRecord(d - 7, SolvedProfile(HARD, 10, 1)), [synced |-> Num(1)])
          : d \in 1..7} }

\* The component as useState leaves it when it mounts.
Mounted ==
    /\ puzzle = {}
    /\ status = STATUS.LOADING
    /\ attempts = 0
    /\ hintBudget = 0
    /\ hintsUsed = 0
    /\ hintText = 0
    /\ startTime = NoTime

PuzzleInit ==
    /\ Mounted
    /\ today \in Days
    /\ events = 0
    /\ hintUsage = {}
    /\ _cache = {}
    /\ served = [d \in Days |-> 0]
    /\ dayBudget = [d \in Days |-> 0]
    /\ failed = [d \in Days |-> 0]
    /\ activities \in PuzzleHistories
    /\ calls = {}
    /\ started = 0
    /\ now = 0
    /\ adaptive = {}

\* The component mounts: every useState takes its initial value, and the
\* mount effect will call loadPuzzle.
Mount ==
    /\ events < MaxEvents
    /\ events' = events + 1
    /\ puzzle' = {}
    /\ status' = STATUS.LOADING
    /\ attempts' = 0
    /\ hintBudget' = 0
    /\ hintsUsed' = 0
    /\ hintText' = 0
    /\ startTime' = NoTime
    /\ UNCHANGED <<today, hintUsage, _cache, served, dayBudget, failed>>
    /\ UNCHANGED <<activities, calls, started, now, adaptive>>
    /\ UNCHANGED <<blankVars, remoteVars>>

\* What the awaited calls settle to when the store read settles to `read`:
\* {table} when localDB.activities.toArray() answers, {} when it rejects.
\* getAllActivities, getAdaptiveDifficulty and generateDailyPuzzle have no
\* catch, so a rejection of the read is a rejection of each of them ({}).
getAdaptiveDifficultyRead(read) ==
    {getAdaptiveDifficulty(table) : table \in read}

generateDailyPuzzleRead(read, date) ==
    {[date |-> date, difficulty |-> a.difficulty, type |-> a.puzzleType]
        : a \in getAdaptiveDifficultyRead(read)}

\* loadPuzzle from its first await on, with the store read settling to
\* `read`; its catch sets STATUS.ERROR.
LoadPuzzleRead(read) ==
    /\ status = STATUS.LOADING
    /\ LET loaded == generateDailyPuzzleRead(read, today)
       IN  IF loaded = {}
           THEN /\ status' = STATUS.ERROR
                /\ UNCHANGED <<puzzle, attempts, hintBudget, hintsUsed, dayBudget>>
           ELSE LET p        == CHOOSE q \in loaded : TRUE
                    existing == DexieGet(activities, today)
                    budget   == computeHintBudget(p.difficulty, activities)
                IN  /\ puzzle' = {p}
                    /\ IF \E e \in existing : IsSolved(e)
                       THEN /\ attempts' = Field(CHOOSE e \in existing : TRUE, "attempts", 1)
                            /\ hintBudget' = 0
                            /\ hintsUsed' = 0
                            /\ status' = STATUS.SOLVED
                            /\ dayBudget' = dayBudget
                       ELSE /\ attempts' = IF existing = {} THEN 0
                                           ELSE Field(CHOOSE e \in existing : TRUE, "attempts", 0)
                            /\ hintBudget' = budget
                            /\ hintsUsed' = getHintsUsedToday(hintUsage, today)
                            /\ status' = STATUS.IDLE
                            /\ dayBudget' = [dayBudget EXCEPT ![today] = budget]
    /\ hintText' = 0
    /\ UNCHANGED <<startTime, today, events, hintUsage, _cache, served, failed>>
    /\ UNCHANGED <<activities, calls, started, now, adaptive>>
    /\ UNCHANGED <<blankVars, remoteVars>>

\* loadPuzzle, run by the mount effect: the store answers or fails.
LoadPuzzle == \E read \in {{activities}, {}} : LoadPuzzleRead(read)

\* The button of the error card calls loadPuzzle again: its synchronous part.
Retry ==
    /\ status = STATUS.ERROR
    /\ status' = STATUS.LOADING
    /\ attempts' = 0
    /\ hintText' = 0
    /\ hintsUsed' = 0
    /\ hintBudget' = 0
    /\ UNCHANGED <<puzzle, startTime, today, events, hintUsage, _cache, served, dayBudget, failed>>
    /\ UNCHANGED <<activities, calls, started, now, adaptive>>
    /\ UNCHANGED <<blankVars, remoteVars>>

\* handleStart, from the focus of an input that is rendered and not locked.
HandleStart ==
    /\ status \in {STATUS.IDLE, STATUS.IN_PROGRESS}
    /\ startTime = NoTime
    /\ startTime' = now
    /\ status' = STATUS.IN_PROGRESS
    /\ UNCHANGED <<puzzle, attempts, hintBudget, hintsUsed, hintText>>
    /\ UNCHANGED <<today, events, hintUsage, _cache, served, dayBudget, failed>>
    /\ UNCHANGED <<activities, calls, started, now, adaptive>>
    /\ UNCHANGED <<blankVars, remoteVars>>

\* HintPanel renders (and so a hint can be requested) unless the puzzle is
\* solved or the budget is 0; the component renders it once loaded.
HintPanelShown ==
    /\ status \in {STATUS.IDLE, STATUS.IN_PROGRESS}
    /\ hintBudget # 0

\* handleUseHint({ level: nextLevel })
HandleUseHint ==
    /\ events < MaxEvents
    /\ events' = events + 1
    /\ HintPanelShown
    /\ IF puzzle = {} \/ hintsUsed >= hintBudget
       THEN UNCHANGED <<hintText, hintsUsed, hintUsage, _cache, served,
                        startTime, status>>
       ELSE LET p == CHOOSE x \in puzzle : TRUE
            IN  /\ hintText' = hintsUsed + 1
                /\ hintsUsed' = hintsUsed + 1
                /\ hintUsage' = useHint(hintUsage, p.date, p.difficulty, hintBudget)
                /\ _cache' = {}
                /\ served' = [served EXCEPT ![p.date] = @ + 1]
                /\ IF startTime = NoTime
                   THEN startTime' = now /\ status' = STATUS.IN_PROGRESS
                   ELSE UNCHANGED <<startTime, status>>
    /\ UNCHANGED <<puzzle, attempts, hintBudget, today, dayBudget, failed>>
    /\ UNCHANGED <<activities, calls, started, now, adaptive>>
    /\ UNCHANGED <<blankVars, remoteVars>>

\* if (!puzzle || status === STATUS.SOLVED || status === STATUS.LOADING) return;
SubmitAccepted ==
    /\ puzzle # {}
    /\ status \notin {STATUS.SOLVED, STATUS.LOADING}

\* handleSubmit with a wrong answer, up to the read of incrementAttempts.
SubmitWrong ==
    /\ events < MaxEvents
    /\ events' = events + 1
    /\ SubmitAccepted
    /\ attempts' = attempts + 1
    /\ LET p == CHOOSE x \in puzzle : TRUE
       IN  calls' = calls \cup
               {[id |-> events', op |-> "increment", date |-> p.date,
                 existing |-> DexieGet(activities, p.date)]}
    /\ UNCHANGED <<puzzle, status, hintBudget, hintsUsed, hintText, startTime>>
    /\ failed' = [failed EXCEPT ![today] = @ + 1]
    /\ UNCHANGED <<today, hintUsage, _cache, served, dayBudget>>
    /\ UNCHANGED <<activities, started, now, adaptive>>
    /\ UNCHANGED <<blankVars, remoteVars>>

\* handleSubmit with the correct answer, up to the read of saveDailyActivity.
SubmitCorrect ==
    /\ events < MaxEvents
    /\ events' = events + 1
    /\ SubmitAccepted
    /\ status' = STATUS.SOLVED
    /\ \E uid \in Uids :
          LET p         == CHOOSE x \in puzzle : TRUE
              timeTaken == IF startTime # NoTime THEN now - startTime ELSE 0
              activity  == SubmitActivity(p.date, uid, timeTaken, p.difficulty,
                                          attempts + 1, now)
          IN  calls' = calls \cup
                  {[id |-> events', op |-> "submit", activity |-> activity,
                    existing |-> DexieGet(activities, p.date)]}
    /\ UNCHANGED <<puzzle, attempts, hintBudget, hintsUsed, hintText, startTime>>
    /\ UNCHANGED <<today, hintUsage, _cache, served, dayBudget, failed>>
    /\ UNCHANGED <<activities, started, now, adaptive>>
    /\ UNCHANGED <<blankVars, remoteVars>>

\* handleSubmit from the put of saveDailyActivity on: bustAnalyticsCache, then
\* syncActivityToFirestore when a user is signed in and the browser online.
SubmitSaved ==
    \E call \in calls :
        /\ call.op = "submit"
        /\ LET saved == SaveRecord(call.activity, call.existing, now)
           IN  /\ activities' = DexiePut(activities, saved)
               /\ \E online \in BOOLEAN :
                     calls' = IF call.activity.uid # "" /\ online
                              THEN (calls \ {call}) \cup
                                       {[id |-> call.id, op |-> "firestore",
                                         saved |-> saved]}
                              ELSE calls \ {call}
        /\ _cache' = {}
        /\ UNCHANGED <<puzzle, status, attempts, hintBudget, hintsUsed, hintText,
                       startTime, today, events, hintUsage, served, dayBudget, failed>>
        /\ UNCHANGED <<started, now, adaptive>>
        /\ UNCHANGED <<blankVars, remoteVars>>

\* syncActivityToFirestore settles: fulfilled, handleSubmit goes on to the read
\* of saveDailyActivity({ ...saved, synced: 1 }); rejected, it goes to catch.
SubmitSynced ==
    \E call \in calls :
        /\ call.op = "firestore"
        /\ \E fulfilled \in BOOLEAN :
              calls' = IF fulfilled
                       THEN (calls \ {call}) \cup
                                {[id |-> call.id, op |-> "save",
                                  activity |-> ResaveActivity(call.saved),
                                  existing |-> DexieGet(activities, call.saved.date)]}
                       ELSE calls \ {call}
        /\ UNCHANGED <<activities, started, now, adaptive>>
        /\ UNCHANGED puzzleVars
        /\ UNCHANGED <<blankVars, remoteVars>>

\* syncActivities for a signed-in user, up to the call of
\* bulkSyncToFirestore; with nothing unsynced it returns at once.
SyncStart ==
    /\ events < MaxEvents
    /\ events' = events + 1
    /\ LET unsynced == getUnsyncedActivities(activities)
       IN  calls' = IF unsynced = {} THEN calls
                    ELSE calls \cup {[id |-> events', op |-> "sync",
                                      dates |-> {r.date : r \in unsynced}]}
    /\ UNCHANGED <<puzzle, status, attempts, hintBudget, hintsUsed, hintText,
                   startTime, today, hintUsage, _cache, served, dayBudget, failed>>
    /\ UNCHANGED <<activities, started, now, adaptive>>
    /\ UNCHANGED <<blankVars, remoteVars>>

\* bulkSyncToFirestore settles: syncedDates are the dates whose push was
\* fulfilled. With none, syncActivities ends here; otherwise it goes on to
\* markActivitiesSynced.
SyncPushed ==
    \E call \in calls :
        /\ call.op = "sync"
        /\ \E syncedDates \in SUBSET call.dates :
              calls' = IF syncedDates = {} THEN calls \ {call}
                       ELSE (calls \ {call}) \cup
                                {[id |-> call.id, op |-> "mark", dates |-> call.dates,
                                  syncedDates |-> syncedDates]}
        /\ UNCHANGED <<activities, started, now, adaptive>>
        /\ UNCHANGED puzzleVars
        /\ UNCHANGED <<blankVars, remoteVars>>

\* markActivitiesSynced marking every date that was read as unsynced.
SyncMarkedDatesAll(call) == call.dates

\* await markActivitiesSynced(syncedDates)
SyncMarkedDates(call) == call.syncedDates

SyncMark ==
    \E call \in calls :
        /\ call.op = "mark"
        /\ activities' = markActivitiesSynced(activities, SyncMarkedDates(call))
        /\ calls' = calls \ {call}
        /\ UNCHANGED <<started, now, adaptive>>
        /\ UNCHANGED puzzleVars
        /\ UNCHANGED <<blankVars, remoteVars>>

\* getInsightsSnapshot with an empty cache, up to the reads of
\* computeInsightsData. (With a filled cache it returns _cache and changes
\* nothing.)
SnapshotStart ==
    /\ events < MaxEvents
    /\ events' = events + 1
    /\ _cache = {}
    /\ calls' = calls \cup {[id |-> events', op |-> "snapshot",
                             data |-> computeInsightsData(activities)]}
    /\ UNCHANGED <<puzzle, status, attempts, hintBudget, hintsUsed, hintText,
                   startTime, today, hintUsage, _cache, served, dayBudget, failed>>
    /\ UNCHANGED <<activities, started, now, adaptive>>
    /\ UNCHANGED <<blankVars, remoteVars>>

\* _cache = await computeInsightsData(): the assignment, once the data is in.
SnapshotInstall ==
    \E call \in calls :
        /\ call.op = "snapshot"
        /\ _cache' = {call.data}
        /\ calls' = calls \ {call}
        /\ UNCHANGED <<puzzle, status, attempts, hintBudget, hintsUsed, hintText,
                       startTime, today, events, hintUsage, served, dayBudget, failed>>
        /\ UNCHANGED <<activities, started, now, adaptive>>
        /\ UNCHANGED <<blankVars, remoteVars>>

SpecPuzzleInit == PuzzleInit /\ BlankIdle /\ RemoteIdle
SpecPuzzleNext ==
    \/ Mount \/ LoadPuzzle \/ Retry \/ HandleStart \/ HandleUseHint
    \/ SubmitWrong \/ IncrementPatch
    \/ SubmitCorrect \/ SubmitSaved \/ SubmitSynced \/ SavePut
    \/ SyncStart \/ SyncPushed \/ SyncMark
    \/ SnapshotStart \/ SnapshotInstall
    \/ Tick
SpecPuzzle     == SpecPuzzleInit /\ [][SpecPuzzleNext]_vars

(***************************************************************************)
(* The handlers that write a record's `synced` field, run together: a      *)
(* solve with its save, push and re-save, and syncActivities with its push *)
(* and its mark, around mounts and loads of the puzzle screen.             *)
(***************************************************************************)
SpecSyncNext ==
    \/ Mount \/ LoadPuzzle \/ HandleStart
    \/ SubmitCorrect \/ SubmitSaved \/ SubmitSynced \/ SavePut
    \/ SyncStart \/ SyncPushed \/ SyncMark
SpecSync       == SpecPuzzleInit /\ [][SpecSyncNext]_vars

(***************************************************************************)
(* computeHintBudget (src/unnamed/part_006) over argument values and       *)
(* stores of up to MaxHistory records. `calls` holds the last call with    *)
(* its argument, whether its store read threw, and the value it resolved   *)
(* to.                                                                     *)
(***************************************************************************)
\* Argument values: the three tiers, a name the literal does not know, and a
\* name it inherits.
DifficultyValues == Difficulties \cup {"expert", "constructor"}

HintProfiles ==
    { SolvedProfile(EASY, 20, 1),
      [solved |-> FALSE, difficulty |-> EASY, timeTaken |-> 0,
       attempts |-> 2, score |-> 0] }

HintInit ==
    /\ activities = {}
    /\ adaptive = {}

\* One more day of history lands in the table.
HintRecord ==
    /\ Cardinality(activities) < MaxHistory
    /\ \E p \in HintProfiles :
          activities' = activities \cup {ProfileRecord(Cardinality(activities) + 1, p)}
    /\ calls' = {}
    /\ UNCHANGED <<started, now, adaptive>>
    /\ UNCHANGED <<blankVars, remoteVars>>
    /\ UNCHANGED puzzleVars

HintCall ==
    /\ \E difficulty \in DifficultyValues, threw \in BOOLEAN :
          calls' = {[op |-> "computeHintBudget", difficulty |-> difficulty,
                     threw |-> threw,
                     budget |-> HintBudgetValue(difficulty,
                                    IF threw THEN {} ELSE {activities})]}
    /\ UNCHANGED <<activities, started, now, adaptive>>
    /\ UNCHANGED <<blankVars, remoteVars>>
    /\ UNCHANGED puzzleVars

SpecHintInit == HintInit /\ BlankIdle /\ StoreIdle /\ PuzzleIdle /\ RemoteIdle
SpecHintNext == HintRecord \/ HintCall
SpecHint     == SpecHintInit /\ [][SpecHintNext]_vars

(***************************************************************************)
(* Streaks: calculateStreaks (src/unnamed/part_009) and buildStreaks as    *)
(* computeRetentionData calls it (src/unnamed/part_008). dayjs() is        *)
(* `today`; a run plays at most one record per day and the days go by.     *)
(***************************************************************************)
MaxStreakSpan == 5    \* days a streak run lasts

\* .map((a) => a.date).sort(): oldest first
RECURSIVE SortOldestFirst(_)
SortOldestFirst(dates) ==
    IF dates = {} THEN <<>>
    ELSE LET oldest == CHOOSE d \in dates : \A e \in dates : d <= e
         IN  <<oldest>> \o SortOldestFirst(dates \ {oldest})

\* activities.filter((a) => a.solved).map((a) => a.date).sort()
SolvedDatesAsc(table) == SortOldestFirst({a.date : a \in {r \in table : IsSolved(r)}})

\* The forward pass from index i with the run so far: longestStreak at the end.
RECURSIVE LongestPass(_, _, _, _)
LongestPass(solvedDates, i, run, longestStreak) ==
    IF i > Len(solvedDates) THEN longestStreak
    ELSE LET next == IF solvedDates[i] - solvedDates[i - 1] = 1 THEN run + 1 ELSE 1
         IN  LongestPass(solvedDates, i + 1, next, Max2(longestStreak, next))

\* solvedSet.has(today) ? today : solvedSet.has(yesterday) ? yesterday : null
StreakAnchorTodayOnly(solvedSet, day) ==
    IF day \in solvedSet THEN {day} ELSE {}

StreakAnchor(solvedSet, day) ==
    IF day \in solvedSet THEN {day}
    ELSE IF day - 1 \in solvedSet THEN {day - 1}
    ELSE {}

\* while (solvedSet.has(cursor)) { currentStreak++; cursor = cursor - 1 day }
RECURSIVE StreakWalk(_, _)
StreakWalk(solvedSet, cursor) ==
    IF cursor \in solvedSet THEN 1 + StreakWalk(solvedSet, cursor - 1) ELSE 0

\* buildStreaks anchoring the current streak on today only.
buildStreaksTodayOnly(solvedDates, day) ==
    IF Len(solvedDates) = 0 THEN [currentStreak |-> 0, longestStreak |-> 0]
    ELSE LET solvedSet == {solvedDates[i] : i \in 1..Len(solvedDates)}
         IN  [currentStreak |-> StreakWalk(solvedSet, day),
              longestStreak |-> LongestPass(solvedDates, 2, 1, 1)]

buildStreaks(solvedDates, day) ==
    IF Len(solvedDates) = 0 THEN [currentStreak |-> 0, longestStreak |-> 0]
    ELSE LET solvedSet == {solvedDates[i] : i \in 1..Len(solvedDates)}
             anchor    == StreakAnchor(solvedSet, day)
         IN  [currentStreak |-> IF anchor = {} THEN 0
                                ELSE StreakWalk(solvedSet, CHOOSE a \in anchor : TRUE),
              longestStreak |-> LongestPass(solvedDates, 2, 1, 1)]

calculateStreaks(table, day) ==
    LET solvedDates == SolvedDatesAsc(table)
        solvedSet   == {solvedDates[i] : i \in 1..Len(solvedDates)}
        startDate   == StreakAnchor(solvedSet, day)
    IN  IF Len(solvedDates) = 0 THEN [currentStreak |-> 0, longestStreak |-> 0]
        ELSE IF startDate = {}
             THEN [currentStreak |-> 0,
                   longestStreak |-> LongestPass(solvedDates, 2, 1, 1)]
        ELSE [currentStreak |-> StreakWalk(solvedSet, CHOOSE a \in startDate : TRUE),
              longestStreak |-> LongestPass(solvedDates, 2, 1, 1)]

\* The streak fields of the snapshot computeRetentionData returns.
computeRetentionData(table, day) == buildStreaks(SolvedDatesAsc(table), day)

StreakInit ==
    /\ activities = {}
    /\ adaptive = {}

\* Today's puzzle is played: solved, or given up on after a wrong answer.
StreakPlay ==
    /\ \A r \in activities : r.date # today
    /\ \E p \in HintProfiles : activities' = activities \cup {ProfileRecord(today, p)}
    /\ calls' = {}
    /\ UNCHANGED <<started, now, adaptive>>
    /\ UNCHANGED <<blankVars, remoteVars>>
    /\ UNCHANGED puzzleVars

StreakNextDay ==
    /\ today < MaxStreakSpan
    /\ today' = today + 1
    /\ calls' = {}
    /\ UNCHANGED <<activities, started, now, adaptive>>
    /\ UNCHANGED <<blankVars, remoteVars>>
    /\ UNCHANGED <<puzzle, status, attempts, hintBudget, hintsUsed, hintText,
                   startTime, events, hintUsage, _cache, served, dayBudget, failed>>

StreakCall ==
    /\ calls' = {[op |-> "calculateStreaks",
                  result |-> calculateStreaks(activities, today)]}
    /\ UNCHANGED <<activities, started, now, adaptive>>
    /\ UNCHANGED <<blankVars, remoteVars>>
    /\ UNCHANGED puzzleVars

RetentionCall ==
    /\ calls' = {[op |-> "computeRetentionData",
                  result |-> computeRetentionData(activities, today)]}
    /\ UNCHANGED <<activities, started, now, adaptive>>
    /\ UNCHANGED <<blankVars, remoteVars>>
    /\ UNCHANGED puzzleVars

SpecStreakInit == StreakInit /\ BlankIdle /\ StoreIdle /\ PuzzleIdle /\ RemoteIdle
SpecStreakNext == StreakPlay \/ StreakNextDay \/ StreakCall \/ RetentionCall
SpecStreak     == SpecStreakInit /\ [][SpecStreakNext]_vars

(***************************************************************************)
(* computeInsightsData (src/unnamed/part_010) over stores of up to         *)
(* MaxSessions records; the snapshot it returns is installed in _cache.    *)
(***************************************************************************)
MaxSessions == 8    \* records of an insights run

\* A fast clean easy solve (score 90), a slow hard solve at the third try
\* (score 10), a day given up on.
InsightProfiles ==
    { SolvedProfile(EASY, 10, 1),
      SolvedProfile(HARD, 90, 3),
      [solved |-> FALSE, difficulty |-> EASY, timeTaken |-> 0,
       attempts |-> 2, score |-> 0] }

InsightsInit ==
    /\ activities = {}
    /\ adaptive = {}

\* One more day is played; the write is followed by bustInsightsCache().
InsightsRecord ==
    /\ Cardinality(activities) < MaxSessions
    /\ \E p \in InsightProfiles :
          activities' = activities \cup {ProfileRecord(Cardinality(activities) + 1, p)}
    /\ _cache' = {}
    /\ UNCHANGED <<calls, started, now, adaptive>>
    /\ UNCHANGED <<blankVars, remoteVars>>
    /\ UNCHANGED <<today, puzzle, status, attempts, hintBudget, hintsUsed,
                   hintText, startTime, events, hintUsage, served, dayBudget, failed>>

\* getInsightsSnapshot with an empty cache
InsightsCall ==
    /\ _cache = {}
    /\ _cache' = {computeInsightsData(activities)}
    /\ UNCHANGED <<activities, calls, started, now, adaptive>>
    /\ UNCHANGED <<blankVars, remoteVars>>
    /\ UNCHANGED <<today, puzzle, status, attempts, hintBudget, hintsUsed,
                   hintText, startTime, events, hintUsage, served, dayBudget, failed>>

SpecInsightsInit == InsightsInit /\ BlankIdle /\ StoreIdle /\ PuzzleIdle /\ RemoteIdle
SpecInsightsNext == InsightsRecord \/ InsightsCall
SpecInsights     == SpecInsightsInit /\ [][SpecInsightsNext]_vars

(***************************************************************************)
(* The two generators of src/unnamed/part_011 as functions of their        *)
(* arguments. Each sr() value is a nondeterministic choice from its        *)
(* range, so a generator is the set of puzzles it can return. The hint     *)
(* text is left out; the grid of a matrix puzzle is blankCells applied to  *)
(* `solution` with `blankCount`, the walk of SpecBlank.                    *)
(***************************************************************************)
RECURSIVE Pow(_, _)
Pow(b, e) == IF e = 0 THEN 1 ELSE b * Pow(b, e - 1)

\* patterns[difficulty]: undefined (the empty sequence) for an unknown name
SequencePatterns(difficulty) ==
    CASE difficulty = EASY   -> <<"arithmetic", "geometric">>
      [] difficulty = MEDIUM -> <<"squares", "fibonacci">>
      [] difficulty = HARD   -> <<"alternating", "polynomial">>
      [] OTHER               -> <<>>

\* patterns[difficulty]?.[pick] ?? "arithmetic"
pickSequencePattern(pick, difficulty) ==
    IF SequencePatterns(difficulty) = <<>> THEN "arithmetic"
    ELSE SequencePatterns(difficulty)[pick + 1]

\* ranges[difficulty] ?? ranges.easy
ArithmeticRanges(difficulty) ==
    CASE difficulty = MEDIUM -> [baseMin |-> 5, baseMax |-> 30, stepMin |-> 4, stepMax |-> 12]
      [] difficulty = HARD   -> [baseMin |-> 10, baseMax |-> 50, stepMin |-> 7, stepMax |-> 20]
      [] OTHER               -> [baseMin |-> 1, baseMax |-> 10, stepMin |-> 2, stepMax |-> 6]

GeometricRanges(difficulty) ==
    CASE difficulty = MEDIUM -> [baseMin |-> 1, baseMax |-> 5, ratioMin |-> 2, ratioMax |-> 4]
      [] difficulty = HARD   -> [baseMin |-> 2, baseMax |-> 6, ratioMin |-> 3, ratioMax |-> 5]
      [] OTHER               -> [baseMin |-> 1, baseMax |-> 4, ratioMin |-> 2, ratioMax |-> 3]

genArithmetic(difficulty) ==
    LET r == ArithmeticRanges(difficulty)
    IN  {[sequence |-> [i \in 1..5 |-> base + (i - 1) * step],
          answer |-> base + 5 * step]
            : base \in r.baseMin..r.baseMax, step \in r.stepMin..r.stepMax}

genGeometric(difficulty) ==
    LET r == GeometricRanges(difficulty)
    IN  {[sequence |-> [i \in 1..5 |-> base * Pow(ratio, i - 1)],
          answer |-> base * Pow(ratio, 5)]
            : base \in r.baseMin..r.baseMax, ratio \in r.ratioMin..r.ratioMax}

genSquares ==
    {[sequence |-> [i \in 1..5 |-> Pow(startN + i - 1, 2)],
      answer |-> Pow(startN + 5, 2)] : startN \in 1..8}

genFibonacci ==
    {[sequence |-> <<a0, a1, a0 + a1, a0 + 2 * a1, 2 * a0 + 3 * a1>>,
      answer |-> (a0 + 2 * a1) + (2 * a0 + 3 * a1)] : a0 \in 1..5, a1 \in 2..8}

genAlternating ==
    {[sequence |-> [i \in 1..5 |-> Pow(-1, i - 1) * base * Pow(ratio, i - 1)],
      answer |-> Pow(-1, 5) * base * Pow(ratio, 5)] : base \in 2..5, ratio \in 2..3}

\* genPolynomial taking n = 5 for the answer, as if n were 0-based.
genPolynomialZeroBased ==
    {[sequence |-> [i \in 1..5 |-> a + b * i + c * Pow(i, 2)],
      answer |-> a + b * 5 + c * 25] : a \in 1..5, b \in 1..4, c \in 1..3}

genPolynomial ==
    {[sequence |-> [i \in 1..5 |-> a + b * i + c * Pow(i, 2)],
      answer |-> a + b * 6 + c * 36] : a \in 1..5, b \in 1..4, c \in 1..3}

\* The switch of generateSequencePuzzle
SequenceResults(pattern, difficulty) ==
    CASE pattern = "geometric"   -> genGeometric(difficulty)
      [] pattern = "squares"     -> genSquares
      [] pattern = "fibonacci"   -> genFibonacci
      [] pattern = "alternating" -> genAlternating
      [] pattern = "polynomial"  -> genPolynomial
      [] OTHER                   -> genArithmetic(difficulty)

generateSequencePuzzle(date, difficulty) ==
    UNION {LET pattern == pickSequencePattern(pick, difficulty)
           IN  {[type |-> SEQUENCE, sequence |-> result.sequence,
                 answer |-> result.answer, patternKey |-> pattern,
                 difficulty |-> difficulty, date |-> date]
                   : result \in SequenceResults(pattern, difficulty)}
             : pick \in 0..1}

\* patterns[difficulty] ?? ["arithmetic"]
MatrixPatterns(difficulty) ==
    CASE difficulty = EASY   -> <<"arithmetic">>
      [] difficulty = MEDIUM -> <<"arithmetic", "multiplication">>
      [] difficulty = HARD   -> <<"multiplication", "polynomial">>
      [] OTHER               -> <<"arithmetic">>

\* opts[sr(...) % opts.length], over every value of sr
pickMatrixPattern(difficulty) ==
    {MatrixPatterns(difficulty)[pick + 1] : pick \in 0..(Len(MatrixPatterns(difficulty)) - 1)}

buildMultiplicationGrid(rBase, cBase) ==
    [i \in Cells |-> (RowOf(i) + rBase) * (ColOf(i) + cBase)]

buildPolynomialGrid(base, rowStep, colStep, mixStep) ==
    [i \in Cells |-> base + RowOf(i) * rowStep + ColOf(i) * colStep
                        + RowOf(i) * ColOf(i) * mixStep]

\* The switch of generateMatrixPuzzle
MatrixBuilds(pattern) ==
    CASE pattern = "multiplication" ->
            {[grid |-> buildMultiplicationGrid(rBase, cBase), ruleKey |-> "multiplication"]
                : rBase \in 1..5, cBase \in 1..5}
      [] pattern = "polynomial" ->
            UNION {{[grid |-> buildPolynomialGrid(base, rowStep, colStep, mixStep),
                     ruleKey |-> "polynomial"]
                       : base \in 1..5, rowStep \in 2..5} : colStep \in 1..4, mixStep \in 1..3}
      [] OTHER ->
            {[grid |-> buildArithmeticGrid(base, rowStep, colStep), ruleKey |-> "arithmetic"]
                : base \in 2..10, rowStep \in 2..8, colStep \in 1..6}

generateMatrixPuzzle(date, difficulty) ==
    UNION {{[type |-> MATRIX, solution |-> built.grid,
             blankCount |-> BlankCountFor(difficulty), patternKey |-> built.ruleKey,
             difficulty |-> difficulty, date |-> date]
               : built \in MatrixBuilds(pattern)}
             : pattern \in pickMatrixPattern(difficulty)}

\* Argument values: the three tiers and a name the generators do not know.
GeneratorDifficulties == Difficulties \cup {"expert"}

GeneratorInit ==
    /\ activities = {}
    /\ adaptive = {}

\* A call of generateSequencePuzzle(today, difficulty) and how it ended: the
\* function has no throw statement, so it returns. A run makes one call.
GenerateSequence ==
    /\ calls = {}
    /\ \E difficulty \in GeneratorDifficulties :
          \E p \in generateSequencePuzzle(today, difficulty) :
             calls' = {[op |-> "generateSequencePuzzle", difficulty |-> difficulty,
                        threw |-> FALSE, returned |-> {p}]}
    /\ UNCHANGED <<activities, started, now, adaptive>>
    /\ UNCHANGED <<blankVars, remoteVars>>
    /\ UNCHANGED puzzleVars

GenerateMatrix ==
    /\ calls = {}
    /\ \E difficulty \in GeneratorDifficulties :
          \E p \in generateMatrixPuzzle(today, difficulty) :
             calls' = {[op |-> "generateMatrixPuzzle", difficulty |-> difficulty,
                        threw |-> FALSE, returned |-> {p}]}
    /\ UNCHANGED <<activities, started, now, adaptive>>
    /\ UNCHANGED <<blankVars, remoteVars>>
    /\ UNCHANGED puzzleVars

SpecGeneratorInit == GeneratorInit /\ BlankIdle /\ StoreIdle /\ PuzzleIdle /\ RemoteIdle
SpecGeneratorNext == GenerateSequence \/ GenerateMatrix
SpecGenerator     == SpecGeneratorInit /\ [][SpecGeneratorNext]_vars

(***************************************************************************)
(* updateLeaderboard (src/src/utils/firestoreSync.js), called without      *)
(* await by handlePuzzleComplete (src/src/App.jsx) on every device or tab  *)
(* the user plays on. A call is suspended at `await getDoc` and again at   *)
(* `await setDoc`; `calls` holds each call with its position, its score    *)
(* argument and the snapshot it read, and keeps the calls that returned.   *)
(***************************************************************************)
MaxLeaderCalls == 3    \* updateLeaderboard calls of one run
LeaderScores   == {0, 40, 90}
LeaderUids     == {"", "u1"}

\* snap.exists() ? snap.data() : null, then
\* !existing || score > (existing.score ?? 0)
IsHighScore(existing, score) ==
    existing = {} \/ \E data \in existing : score > Field(data, "score", 0)

LeaderboardInit ==
    /\ activities = {}
    /\ calls = {}
    /\ started = 0
    /\ now = 0
    /\ adaptive = {}
    /\ leaderboard \in {{}, {[uid |-> "u1", name |-> "Anonymous", score |-> 40]}}

\* handlePuzzleComplete({ score }): auth.currentUser is null or the user
LeaderComplete ==
    /\ started < MaxLeaderCalls
    /\ \E score \in LeaderScores, uid \in LeaderUids :
          /\ started' = started + 1
          /\ calls' = calls \cup
                {[id |-> started + 1, op |-> "updateLeaderboard", uid |-> uid,
                  score |-> score,
                  pc |-> IF uid = "" THEN "returned" ELSE "getDoc"]}
    /\ UNCHANGED <<activities, now, adaptive, leaderboard>>
    /\ UNCHANGED puzzleVars /\ UNCHANGED blankVars

\* `await getDoc(ref)` resolves with the document as it is now, and the
\* condition is evaluated on it
LeaderGetDoc ==
    /\ \E call \in calls :
          /\ call.pc = "getDoc"
          /\ calls' = (calls \ {call}) \cup
                {[call EXCEPT !.pc = IF IsHighScore(leaderboard, call.score)
                                     THEN "setDoc" ELSE "returned"]}
    /\ UNCHANGED <<activities, started, now, adaptive, leaderboard>>
    /\ UNCHANGED puzzleVars /\ UNCHANGED blankVars

\* `await setDoc(ref, {...})` replaces the document
LeaderSetDoc ==
    /\ \E call \in calls :
          /\ call.pc = "setDoc"
          /\ leaderboard' = {[uid |-> call.uid, name |-> "Anonymous", score |-> call.score]}
          /\ calls' = (calls \ {call}) \cup {[call EXCEPT !.pc = "returned"]}
    /\ UNCHANGED <<activities, started, now, adaptive>>
    /\ UNCHANGED puzzleVars /\ UNCHANGED blankVars

SpecLeaderboardInit == LeaderboardInit /\ BlankIdle /\ PuzzleIdle
SpecLeaderboardNext == LeaderComplete \/ LeaderGetDoc \/ LeaderSetDoc
SpecLeaderboard     == SpecLeaderboardInit /\ [][SpecLeaderboardNext]_vars

(***************************************************************************)
(* Properties of the hint budget and of the analytics cache                *)
(***************************************************************************)
\* C6: for every date, across hint requests and reloads, the hints served for
\* the date never exceed the date's budget, the recorded hintsUsed never
\* decreases, and a hint request made when hintsUsed >= hintBudget changes
\* neither the hint usage record nor the hint on display.
C6_HintsWithinBudget ==
    [][ /\ \A d \in Days : served'[d] <= dayBudget'[d]
        /\ getHintsUsedToday(hintUsage', today) >= getHintsUsedToday(hintUsage, today)
        /\ status' \in {STATUS.IDLE, STATUS.IN_PROGRESS} => hintsUsed' >= served'[today]
        /\ (HandleUseHint /\ hintsUsed >= hintBudget)
               => (hintUsage' = hintUsage /\ hintText' = hintText) ]_vars

\* C7: every step that writes the activity store leaves the analytics cache
\* busted, so no snapshot of the store before the write stays installed.
C7_WriteBustsCache ==
    [][ activities' # activities => _cache' = {} ]_vars

(***************************************************************************)
(* Properties of the activity store                                        *)
(***************************************************************************)
\* C4: after any sequence of saveDailyActivity, incrementAttempts (and its
\* patchActivity) and markActivitiesSynced, the table holds at most one
\* record per date, and every record has attempts >= 1 and synced equal to
\* the number 0 or the number 1, never a boolean.
C4_StoreRecordInvariant ==
    /\ \A r, q \in activities : r.date = q.date => r = q
    /\ \A r \in activities :
          /\ r.attempts >= 1
          /\ r.synced \in {Num(0), Num(1)}

\* A record saved only without uid and with the boolean `synced: false`, then
\* incremented by incrementAttempts and marked synced.
C4_Witness ==
    \E r \in activities :
        r.difficulty = "2" /\ r.uid = "" /\ r.attempts >= 2 /\ r.synced = Num(1)

\* C5: once a record of a date has been written with some createdAt, no later
\* saveDailyActivity of that date changes createdAt, whatever the interleaving
\* of the reads and puts of concurrent calls.
C5_CreatedAtImmutable ==
    [][\A r \in activities : \A q \in activities' :
          q.date = r.date => q.createdAt = r.createdAt]_vars

(***************************************************************************)
(* Properties of blankCells                                                *)
(***************************************************************************)
NullCells(grid) == {i \in Cells : grid[i] = Null}

OthersVisibleInRow(grid, i) ==
    Cardinality({j \in Cells : RowOf(j) = RowOf(i) /\ j # i /\ grid[j] # Null})

OthersVisibleInCol(grid, i) ==
    Cardinality({j \in Cells : ColOf(j) = ColOf(i) /\ j # i /\ grid[j] # Null})

\* C1: in the grid blankCells returns, for count 3, 5 or 7 and any candidate
\* order, every null cell has at least 2 other non-null cells in its row and
\* at least 2 in its column, measured on the returned grid.
C1_BlankedCellsStayDetermined ==
    blankPc = "returned" =>
        \A i \in NullCells(puzzleGrid) :
            /\ OthersVisibleInRow(puzzleGrid, i) >= 2
            /\ OthersVisibleInCol(puzzleGrid, i) >= 2

\* A returned hard grid in which some row holds two nulls and some cell that
\* was walked stayed visible.
C1_Witness ==
    /\ blankPc = "returned"
    /\ blankCount = 7
    /\ \E i, j \in NullCells(puzzleGrid) : i # j /\ RowOf(i) = RowOf(j)
    /\ visited \ blanked # {}

\* The walk is exhausted: every index was walked and each index left visible
\* fails the row/column check.
Exhausted ==
    /\ visited = Cells
    /\ \A i \in Cells \ blanked : ~CanBlank(i, blanked)

C25_ExactCountUpToSeven ==
    /\ Cardinality(blanked) <= 2 * GridSide
    /\ blankPc = "returned" =>
          LET n == Cardinality(NullCells(puzzleGrid))
          IN  /\ n <= 2 * GridSide
              /\ blankCount <= 7 => n = blankCount
              /\ \A d \in Difficulties : blankCount = BlankCountFor(d) => n \in {3, 5, 7}

\* A count of 7 is met only by the last candidate of the order, after nine
\* candidates were refused.
C25_Witness ==
    /\ blankPc = "returned"
    /\ blankCount = 7
    /\ Cardinality(NullCells(puzzleGrid)) = 7
    /\ visited = Cells

(***************************************************************************)
(* Properties of getAdaptiveDifficulty                                     *)
(***************************************************************************)
\* C8: for every window of 1 to 7 records, performanceScore is an integer in
\* 0..100, with solveRateScore in 0..40, speedScore in 0..40 and
\* cleanSolveScore in 0..20.
C8_PerformanceScoreBounds ==
    \A r \in adaptive :
        LET window == RecentWindow(activities)
            solved == SolvedOf(window)
        IN  Len(window) \in 1..7 =>
                /\ r.performanceScore \in 0..100
                /\ SolveRateScore(window, solved) \in 0..40
                /\ computeSpeedScore(solved, getDominantDifficulty(solved)) \in 0..40
                /\ CleanSolveScore(solved) \in 0..20
                /\ r.performanceScore = SolveRateScore(window, solved)
                       + computeSpeedScore(solved, getDominantDifficulty(solved))
                       + CleanSolveScore(solved)

\* A full window with solved and unsolved records whose speed score is
\* interpolated.
C8_Witness ==
    /\ adaptive # {}
    /\ LET window == RecentWindow(activities)
           solved == SolvedOf(window)
           speed  == computeSpeedScore(solved, getDominantDifficulty(solved))
       IN  /\ Len(window) = 7
           /\ Len(solved) \in 1..6
           /\ speed > 0 /\ speed < 40

\* C9: with an empty activity store, getAdaptiveDifficulty returns sequence,
\* easy, performanceScore 0 and trend stable.
C9_ColdStart ==
    \A r \in adaptive :
        activities = {} =>
            /\ r.puzzleType = SEQUENCE
            /\ r.difficulty = EASY
            /\ r.performanceScore = 0
            /\ r.trend = "stable"

C9_Witness == adaptive # {} /\ activities = {}

IsScenarioB(a) ==
    /\ a.solved = TRUE
    /\ a.difficulty = HARD
    /\ a.attempts = 1
    /\ a.timeTaken = 10

Contains(seq, x) == \E i \in 1..Len(seq) : seq[i] = x

\* C10: when the 7-record window holds only solved hard records with
\* attempts 1 and timeTaken 10, solveRateScore = 40, speedScore = 40,
\* cleanSolveScore = 20, performanceScore = 100, the difficulty is hard and the
\* reason contains "strong performance".
C10_ScenarioB ==
    \A r \in adaptive :
        LET window == RecentWindow(activities)
            solved == SolvedOf(window)
        IN  (Len(window) = 7 /\ \A i \in 1..7 : IsScenarioB(window[i])) =>
                /\ SolveRateScore(window, solved) = 40
                /\ computeSpeedScore(solved, getDominantDifficulty(solved)) = 40
                /\ CleanSolveScore(solved) = 20
                /\ r.performanceScore = 100
                /\ r.difficulty = HARD
                /\ Contains(r.reason, "strong performance")

C10_Witness ==
    /\ adaptive # {}
    /\ LET window == RecentWindow(activities)
       IN  Len(window) = 7 /\ \A i \in 1..7 : IsScenarioB(window[i])

TierRank(d) == CASE d = "easy" -> 1 [] d = "medium" -> 2 [] d = "hard" -> 3 [] OTHER -> 9

\* C26: for every non-empty window the difficulty getAdaptiveDifficulty
\* returns is easy, medium or hard and is at most one tier away from the
\* dominant difficulty of the window's solved records.
C26_AtMostOneTier ==
    \A r \in adaptive :
        LET window   == RecentWindow(activities)
            dominant == getDominantDifficulty(SolvedOf(window))
        IN  Len(window) > 0 =>
                /\ r.difficulty \in {"easy", "medium", "hard"}
                /\ TierRank(r.difficulty) - TierRank(dominant) \in {-1, 0, 1}

\* Hard is dominant, the score is under the decrease threshold and the trend
\* is declining: both the threshold step and the trend override ask for a
\* step down, and the result is medium.
C26_Witness ==
    \E r \in adaptive :
        /\ getDominantDifficulty(SolvedOf(RecentWindow(activities))) = "hard"
        /\ r.performanceScore < THRESHOLD_DECREASE
        /\ r.trend = "declining"
        /\ r.difficulty = "medium"

\* The up-map and the down-map as the claims spell them.
UpImage(d) ==
    CASE d = "easy" -> "medium" [] d = "medium" -> "hard" [] d = "hard" -> "hard"

DownImage(d) ==
    CASE d = "hard" -> "medium" [] d = "medium" -> "easy" [] d = "easy" -> "easy"

\* C12: for a non-empty window, performanceScore >= 75 returns the up-map
\* image of the dominant difficulty and performanceScore < 35 the down-map
\* image, whatever the trend.
C12_ThresholdMaps ==
    \A r \in adaptive :
        LET window   == RecentWindow(activities)
            dominant == getDominantDifficulty(SolvedOf(window))
        IN  Len(window) > 0 =>
                /\ r.performanceScore >= 75 => r.difficulty = UpImage(dominant)
                /\ r.performanceScore < 35 => r.difficulty = DownImage(dominant)

\* A score under 35 with a declining trend and hard dominant.
C12_Witness ==
    \E r \in adaptive :
        /\ r.performanceScore < 35
        /\ r.trend = "declining"
        /\ getDominantDifficulty(SolvedOf(RecentWindow(activities))) = "hard"

\* C13: for a non-empty window with performanceScore in 35..74, the returned
\* difficulty is the up-map image of the dominant difficulty if the trend is
\* improving and the score >= 60, the down-map image if the trend is declining
\* and the score <= 45, and the dominant difficulty otherwise.
C13_TrendOverride ==
    \A r \in adaptive :
        LET window   == RecentWindow(activities)
            dominant == getDominantDifficulty(SolvedOf(window))
        IN  (Len(window) > 0 /\ r.performanceScore \in 35..74) =>
                r.difficulty =
                    IF r.trend = "improving" /\ r.performanceScore >= 60
                    THEN UpImage(dominant)
                    ELSE IF r.trend = "declining" /\ r.performanceScore <= 45
                    THEN DownImage(dominant)
                    ELSE dominant

\* A declining trend at a score of at most 45 that steps hard down to medium.
C13_Witness ==
    \E r \in adaptive :
        /\ r.performanceScore \in 35..45
        /\ r.trend = "declining"
        /\ getDominantDifficulty(SolvedOf(RecentWindow(activities))) = "hard"
        /\ r.difficulty = "medium"

(***************************************************************************)
(* Properties of computeHintBudget                                         *)
(***************************************************************************)
\* C14: computeHintBudget returns an integer from 1 to 4 for every difficulty
\* value, including values other than easy, medium and hard, for every
\* history, and when the store read throws.
C14_BudgetInRange ==
    \A c \in calls :
        c.op = "computeHintBudget" => c.budget \in {Num(b) : b \in 1..4}

\* C15: for easy, medium and hard, computeHintBudget equals
\* min(base + a + s, 4) with base 3, 2, 1, a = 1 exactly when fewer than half
\* of all the records of the recent window are solved, and s = 1 exactly when
\* the player has activity on at least 7 distinct recent dates.
C15_BudgetFormula ==
    \A c \in calls :
        (c.op = "computeHintBudget" /\ c.difficulty \in Difficulties /\ ~c.threw)
            => LET window == RecentWindow(activities)
                   base   == CASE c.difficulty = EASY   -> 3
                               [] c.difficulty = MEDIUM -> 2
                               [] c.difficulty = HARD   -> 1
                   a      == IF Len(window) > 0
                                /\ 2 * Len(SolvedOf(window)) < Len(window)
                             THEN 1 ELSE 0
                   s      == IF Cardinality({r.date : r \in activities}) >= 7
                             THEN 1 ELSE 0
               IN  c.budget = Num(Min2(base + a + s, 4))

(***************************************************************************)
(* Properties of the streaks                                               *)
(***************************************************************************)
SolvedSet == {a.date : a \in {r \in activities : IsSolved(r)}}

\* The length of the maximal run of consecutive days of S that ends at day d
RunEndingAt(S, d) ==
    CHOOSE n \in 0..Cardinality(S) :
        /\ \A k \in 0..(n - 1) : d - k \in S
        /\ d - n \notin S

StreakCalls == {c \in calls : c.op \in {"calculateStreaks", "computeRetentionData"}}

\* C16: currentStreak, from calculateStreaks and from buildStreaks alike, is
\* the length of the maximal run of consecutive solved days ending today if
\* today is solved, else ending yesterday if yesterday is solved, else 0;
\* solved {D-2, D-1, D} gives 3 and solved {D-3, D-2} gives 0.
C16_CurrentStreak ==
    \A c \in StreakCalls :
        /\ c.result.currentStreak =
               IF today \in SolvedSet THEN RunEndingAt(SolvedSet, today)
               ELSE IF today - 1 \in SolvedSet THEN RunEndingAt(SolvedSet, today - 1)
               ELSE 0
        /\ SolvedSet = {today - 2, today - 1, today} => c.result.currentStreak = 3
        /\ SolvedSet = {today - 3, today - 2} => c.result.currentStreak = 0

\* Yesterday and the day before are solved, today is not yet, and both
\* computations have been asked.
C16_Witness ==
    /\ SolvedSet = {today - 2, today - 1}
    /\ \E r \in activities : r.date = today /\ ~IsSolved(r)
    /\ \E c \in StreakCalls : c.result.currentStreak = 2

\* C30: for every set of solved dates, 0 <= currentStreak <= longestStreak <=
\* number of solved dates, and buildStreaks and calculateStreaks return the
\* same pair for the same solved dates and the same today.
C30_StreaksAgree ==
    \A c \in StreakCalls :
        /\ 0 <= c.result.currentStreak
        /\ c.result.currentStreak <= c.result.longestStreak
        /\ c.result.longestStreak <= Cardinality(SolvedSet)
        /\ c.result = calculateStreaks(activities, today)
        /\ c.result = buildStreaks(SolvedDatesAsc(activities), today)

\* The retention engine has answered with a current streak shorter than the
\* longest, itself shorter than the number of solved days; yesterday anchors
\* the current streak.
C30_Witness ==
    /\ today \notin SolvedSet
    /\ \E c \in StreakCalls :
          /\ c.op = "computeRetentionData"
          /\ c.result.currentStreak = 1
          /\ c.result.longestStreak = 2
          /\ Cardinality(SolvedSet) = 3

(***************************************************************************)
(* Properties of the insights snapshot                                     *)
(***************************************************************************)
\* The sum of the 7 scores of the trend at indices i-6..i
WindowSum(trend, i) == SumSeq([k \in 1..7 |-> trend[i - 7 + k].score])

\* The trend lists the solved sessions of the store, oldest first.
IsChronological(trend) ==
    /\ {trend[i].date : i \in 1..Len(trend)} = SolvedSet
    /\ \A i \in 1..(Len(trend) - 1) : trend[i].date < trend[i + 1].date

\* C17 as stated: in performanceTrend rollingAvg is null at indices 0 to 5
\* and at every index i >= 6 equals the exact mean of the 7 scores at indices
\* i-6..i. (Index i of the array is position i + 1 of the sequence.)
C17_ExactMean ==
    \A snap \in _cache :
        \A i \in 1..Len(snap.performanceTrend) :
            LET trend == snap.performanceTrend
            IN  IF i <= 6 THEN trend[i].rollingAvg = {}
                ELSE \E m \in trend[i].rollingAvg : 7 * m = WindowSum(trend, i)

\* C17 amended: performanceTrend lists the solved sessions oldest first;
\* rollingAvg is null at indices 0 to 5 and at every index i >= 6 is the
\* integer nearest to the mean of the 7 scores at indices i-6..i.
C17_RoundedMean ==
    \A snap \in _cache :
        /\ IsChronological(snap.performanceTrend)
        /\ \A i \in 1..Len(snap.performanceTrend) :
              LET trend == snap.performanceTrend
              IN  IF i <= 6 THEN trend[i].rollingAvg = {}
                  ELSE \E m \in trend[i].rollingAvg :
                          /\ 2 * (7 * m - WindowSum(trend, i)) < 7
                          /\ 2 * (WindowSum(trend, i) - 7 * m) < 7

\* A trend of 8 sessions whose two full windows have means that are not
\* integers, one rounded up and one rounded down.
C17_Witness ==
    \E snap \in _cache :
        LET trend == snap.performanceTrend
        IN  /\ Len(trend) = 8
            /\ \E i, j \in 7..8 :
                  /\ \E m \in trend[i].rollingAvg : 7 * m > WindowSum(trend, i)
                  /\ \E m \in trend[j].rollingAvg : 7 * m < WindowSum(trend, j)

(***************************************************************************)
(* Properties of the generators                                            *)
(***************************************************************************)
\* C18: a call of generateSequencePuzzle or generateMatrixPuzzle with a
\* difficulty other than easy, medium and hard fails with a validation error
\* and returns no puzzle.
C18_InvalidDifficultyRejected ==
    \A c \in calls :
        (c.op \in {"generateSequencePuzzle", "generateMatrixPuzzle"}
            /\ c.difficulty \notin Difficulties)
            => c.threw /\ c.returned = {}

(***************************************************************************)
(* Properties of the load of the daily puzzle                              *)
(***************************************************************************)
\* C19: when the read of the activity store fails, the difficulty engine
\* returns the cold-start result (sequence, easy), generateDailyPuzzle yields
\* a puzzle, and DailyPuzzle does not enter the error status.
C19_ReadFailureIsColdStart ==
    [][ LoadPuzzleRead({})
          => /\ \E a \in getAdaptiveDifficultyRead({}) :
                    a.puzzleType = SEQUENCE /\ a.difficulty = EASY
             /\ generateDailyPuzzleRead({}, today) # {}
             /\ status' # STATUS.ERROR ]_vars

(***************************************************************************)
(* Properties of the attempts counter                                      *)
(***************************************************************************)
\* incrementAttempts has finished for a wrong answer: a record of the date is
\* in the store.
FailureLeavesRecord ==
    \A c \in calls \ calls' :
        c.op = "increment" => \E r \in activities' : r.date = c.date

\* The one correct submission of a date carries attempts = k + 1, k being the
\* wrong answers submitted for the date so far, whatever reloads came between.
SolveCountsFailures ==
    \A c \in calls' \ calls :
        (/\ c.op = "submit"
         /\ \A r \in activities : r.date = c.activity.date => ~IsSolved(r)
         /\ \A o \in calls : o.op # "submit")
            => c.activity.attempts = failed[c.activity.date] + 1

\* The record stored by the solve has the attempts of the submission.
SolveStoresAttempts ==
    \A c \in calls \ calls' :
        c.op = "submit"
            => \E r \in activities' :
                  /\ r.date = c.activity.date
                  /\ IsSolved(r)
                  /\ r.attempts = c.activity.attempts

\* C20: for k >= 0 wrong submissions followed by one correct submission for a
\* date, with any number of reloads in between, the first wrong submission
\* creates an unsolved record for the date, and the record stored after the
\* solve has attempts = k + 1.
C20_AttemptsCountSubmissions ==
    [][FailureLeavesRecord /\ SolveCountsFailures /\ SolveStoresAttempts]_vars

\* The five shown terms followed by the answer
SixTerms(p) == p.sequence \o <<p.answer>>

\* The rule of each family, stated on six consecutive terms t.
FollowsFamily(patternKey, t) ==
    CASE patternKey = "arithmetic" ->
            \E d \in 1..20 : \A i \in 1..5 : t[i + 1] = t[i] + d
      [] patternKey = "geometric" ->
            \E ratio \in 2..5 : \A i \in 1..5 : t[i + 1] = t[i] * ratio
      [] patternKey = "squares" ->
            \E n \in 1..8 : \A i \in 1..6 : t[i] = (n + i - 1) * (n + i - 1)
      [] patternKey = "fibonacci" ->
            \A i \in 3..6 : t[i] = t[i - 1] + t[i - 2]
      [] patternKey = "alternating" ->
            \E ratio \in 2..3 : \A i \in 1..5 : t[i + 1] = (0 - ratio) * t[i]
      [] patternKey = "polynomial" ->
            \E a \in 1..5, b \in 1..4, c \in 1..3 :
                \A i \in 1..6 : t[i] = a + b * i + c * i * i
      [] OTHER -> FALSE

\* C21: for each of the six sequence families and every parameter value of
\* its ranges, the answer is the term at index 5 of the formula that produced
\* the five shown terms at indices 0..4.
C21_AnswerIsSixthTerm ==
    \A c \in calls :
        c.op = "generateSequencePuzzle"
            => \A p \in c.returned :
                  Len(p.sequence) = 5 /\ FollowsFamily(p.patternKey, SixTerms(p))

\* The polynomial puzzle 3, 7, 13, 21, 31 with answer 43 (a = b = c = 1,
\* n = 6) has been generated.
C21_Witness ==
    \E c \in calls :
        /\ c.op = "generateSequencePuzzle"
        /\ \E p \in c.returned :
              /\ p.patternKey = "polynomial"
              /\ p.sequence = <<3, 7, 13, 21, 31>>
              /\ p.answer = 43

\* C22: when a solved record exists, performanceSummary reports the engine's
\* difficulty, trend and performanceScore for the store; ptsToAdvance is null
\* exactly when that difficulty is hard and otherwise max(0, 75 - score);
\* ptsAtRisk is null exactly when it is easy and otherwise max(0, score - 35).
C22_PointsToThresholds ==
    \A snap \in _cache :
        SolvedSet # {} =>
            LET s == snap.performanceSummary
                a == getAdaptiveDifficulty(activities)
            IN  /\ s.currentDifficulty = a.difficulty
                /\ s.trend = a.trend
                /\ s.performanceScore = a.performanceScore
                /\ s.ptsToAdvance = {} <=> s.currentDifficulty = HARD
                /\ \A pts \in s.ptsToAdvance :
                      /\ pts >= 0
                      /\ pts >= 75 - s.performanceScore
                      /\ pts \in {0, 75 - s.performanceScore}
                /\ s.ptsAtRisk = {} <=> s.currentDifficulty = EASY
                /\ \A pts \in s.ptsAtRisk :
                      /\ pts >= 0
                      /\ pts >= s.performanceScore - 35
                      /\ pts \in {0, s.performanceScore - 35}

\* A snapshot that reports hard: no points to advance, a margin at risk.
C22_Witness ==
    \E snap \in _cache :
        /\ ~snap.isEmpty
        /\ snap.performanceSummary.currentDifficulty = HARD
        /\ snap.performanceSummary.ptsToAdvance = {}
        /\ \E pts \in snap.performanceSummary.ptsAtRisk : pts > 0

(***************************************************************************)
(* Properties of the background sync                                       *)
(***************************************************************************)
\* The syncActivities calls that end in this step, each with the dates it
\* pushed and the dates whose push was fulfilled.
SyncEnding ==
    {[dates |-> c.dates,
      syncedDates |-> IF c.op = "mark" THEN c.syncedDates ELSE {}]
        : c \in {x \in calls \ calls' :
                    /\ x.op \in {"sync", "mark"}
                    /\ \A y \in calls' : y.id # x.id}}

\* The records this step changed to synced = 1
NewlySynced ==
    {r \in activities' :
        /\ r.synced = Num(1)
        /\ \E q \in activities : q.date = r.date /\ q.synced # Num(1)}

\* C23 as stated: when syncActivities completes, a record has been changed to
\* synced = 1 only if its push was fulfilled, and every record whose push was
\* rejected still has synced = 0 and is returned by getUnsyncedActivities.
C23_RejectedStayUnsynced ==
    [][ \A c \in SyncEnding :
          /\ \A r \in NewlySynced : r.date \in c.syncedDates
          /\ \A d \in c.dates \ c.syncedDates :
                \E r \in activities' :
                    /\ r.date = d
                    /\ r.synced = Num(0)
                    /\ r \in getUnsyncedActivities(activities') ]_vars

\* C23 amended: when syncActivities completes, the records it changed to
\* synced = 1 are records whose push was fulfilled, and it leaves every record
\* whose push was rejected as it was: such a record still has synced = 0, and
\* is returned by getUnsyncedActivities, unless another writer (handleSubmit
\* after its own push) has marked it meanwhile.
C23_SyncMarksOnlyFulfilled ==
    [][ \A c \in SyncEnding :
          /\ \A r \in NewlySynced : r.date \in c.syncedDates
          /\ \A d \in c.dates \ c.syncedDates :
                \A r \in activities :
                    r.date = d
                        => /\ r \in activities'
                           /\ r.synced = Num(0) => r \in getUnsyncedActivities(activities') ]_vars

\* Yesterday's record has been marked by a sync while today's solve is in the
\* store unsynced and no call is in flight.
C23_Witness ==
    /\ calls = {}
    /\ \E r \in activities : r.date = 0 /\ r.synced = Num(1)
    /\ \E r \in activities : r.date = today /\ r.synced = Num(0) /\ r.uid = "u1"

(***************************************************************************)
(* Leaderboard                                                             *)
(***************************************************************************)
\* The scores the signed-in user's calls were given, with the score the
\* document started with
SubmittedScores ==
    {c.score : c \in {x \in calls : x.op = "updateLeaderboard" /\ x.uid # ""}}
        \cup {d.score : d \in leaderboard}

AllReturned == calls # {} /\ \A c \in calls : c.pc = "returned"

\* C24: for every interleaving of updateLeaderboard calls for one uid the
\* stored score never decreases, and when every call has returned it is the
\* maximum of the scores submitted.
C24_ScoreNeverDecreases ==
    [][ /\ \A old \in leaderboard : \E new \in leaderboard' : new.score >= old.score
        /\ AllReturned' =>
              \A new \in leaderboard' : \A score \in SubmittedScores' : new.score >= score ]_vars

(***************************************************************************)
(* Properties of the puzzle shown in the solved state                      *)
(***************************************************************************)
\* C27: generateDailyPuzzle returns the same puzzle for a date before and
\* after the date's solved record is saved: whenever the solved state is
\* shown and the date's solved record is in the store, the puzzle on screen
\* has the type and difficulty of the puzzle that was solved, the difficulty
\* stored in the record.
C27_SolvedPuzzleIsStable ==
    (status = STATUS.SOLVED) =>
        \A p \in puzzle : \A r \in DexieGet(activities, today) :
            (IsSolved(r) /\ p.date = r.date) => p.difficulty = r.difficulty

(***************************************************************************)
(* Properties of the analytics cache under an in-flight snapshot           *)
(***************************************************************************)
\* The dates of the solved sessions a snapshot was computed from
SnapshotDates(data) ==
    {data.performanceTrend[i].date : i \in 1..Len(data.performanceTrend)}

\* C28: a snapshot computed before a store write is not installed after the
\* bust that follows the write. handleSubmit busts the cache right after it
\* saves today's solved record, so once that record is in the store every
\* snapshot getInsightsSnapshot can return was computed with the record in it.
C28_StaleSnapshotNotInstalled ==
    (\E r \in DexieGet(activities, today) : IsSolved(r)) =>
        \A data \in _cache : today \in SnapshotDates(data)

(***************************************************************************)
(* Properties of the solved state                                          *)
(***************************************************************************)
\* Today's solved record, if the store has one
SolvedToday(table) == {r \in DexieGet(table, today) : IsSolved(r)}

\* The record keeps its solved flag, score, timeTaken and attempts
KeepsResult(r, table) ==
    \E q \in DexieGet(table, r.date) :
        /\ IsSolved(q)
        /\ q.score = r.score
        /\ q.timeTaken = r.timeTaken
        /\ q.attempts = r.attempts

\* C29: while DailyPuzzle shows the solved state for a date, no submission and
\* no hint request is accepted, and no step changes the solved flag, score,
\* timeTaken or attempts of the date's solved record.
C29_SolvedIsFinal ==
    [][ status = STATUS.SOLVED =>
          /\ ~SubmitWrong
          /\ ~SubmitCorrect
          /\ ~HandleUseHint
          /\ \A r \in SolvedToday(activities) : KeepsResult(r, activities') ]_vars

====
